---- MODULE Spec2Model ----
(***************************************************************************)
(* Semantic analysis core of the Atlantis VIP language: the type lattice   *)
(* and its assignability relation (type-system/descriptions.ts, infer.ts), *)
(* the memoized type-inference engine (infer.ts) and the validator that    *)
(* drives it (the validator classes of the language module).               *)
(***************************************************************************)
EXTENDS Integers, Sequences, FiniteSets, TLC

(***************************************************************************)
(* Bounds of the model.                                                    *)
(***************************************************************************)
\* array bounds, string lengths and decimal precisions range over 1..MaxBound
MaxBound == 2

\* the parsed expressions have at most MaxNodes nodes in all
MaxNodes == 3

\* a call has at most MaxArgs arguments
MaxArgs == 1

\* the call stack holds at most MaxStack activations
MaxStack == 8

\* JavaScript `undefined`: an absent node, an absent optional number
None == 0

(***************************************************************************)
(* Type descriptions (descriptions.ts).  `type` is the $type tag.          *)
(***************************************************************************)
createErrorType(message, source) ==
    [type |-> "error", message |-> message, source |-> source]

isErrorType(item) == item.type = "error"

createBooleanTypeDescription(literal) ==
    [type |-> "boolean", literal |-> literal]

isBooleanType(item) == item.type = "boolean"

createNumberTypeDescription(literal, precision, scale) ==
    [type |-> "number", literal |-> literal, precision |-> precision, scale |-> scale]

isNumberType(item) == item.type = "number"

createStringTypeDescription(literal, length) ==
    [type |-> "string", literal |-> literal, length |-> length]

isStringType(item) == item.type = "string"

createDateTypeDescription == [type |-> "date"]

isDateType(item) == item.type = "date"

createTimeTypeDescription == [type |-> "time"]

isTimeType(item) == item.type = "time"

createDateTimeTypeDescription == [type |-> "datetime"]

isDateTimeType(item) == item.type = "datetime"

createArrayTypeDescriptionSwapped(elementType, rightBound, leftBound) ==
    [type |-> "array", elementType |-> elementType,
     rightBound |-> leftBound, leftBound |-> rightBound]

createArrayTypeDescription(elementType, rightBound, leftBound) ==
    [type |-> "array", elementType |-> elementType,
     rightBound |-> rightBound, leftBound |-> leftBound]

isArrayTypeDesc(item) == item.type = "array"

\* fields: a function from the field names of the record to their types
createRecordTypeDescription(fields) == [type |-> "record", fields |-> fields]

isRecordTypeDesc(item) == item.type = "record"

createUserTypeDescription(baseType) == [type |-> "user", baseType |-> baseType]

isUserTypeDesc(item) == item.type = "user"

createUnknownTypeDescription == [type |-> "unknown"]

isUnknownType(item) == item.type = "unknown"

(***************************************************************************)
(* isAssignable(typeA, typeB): can typeB be assigned to typeA (infer.ts).  *)
(***************************************************************************)
RECURSIVE isAssignable(_, _)

\* mutant: the record loop rejects a field that IS assignable (a dropped `!`)
isAssignableRecordNegated(typeA, typeB) ==
    IF isErrorType(typeA) \/ isErrorType(typeB) THEN TRUE
    ELSE IF isArrayTypeDesc(typeA) /\ isArrayTypeDesc(typeB)
         THEN isAssignable(typeA.elementType, typeB.elementType)
    ELSE IF isUserTypeDesc(typeA) /\ isUserTypeDesc(typeB)
         THEN isAssignable(typeA.baseType, typeB.baseType)
    ELSE IF isRecordTypeDesc(typeA) /\ isRecordTypeDesc(typeB)
         THEN \A fieldName \in DOMAIN typeA.fields :
                 /\ fieldName \in DOMAIN typeB.fields
                 /\ ~isAssignable(typeA.fields[fieldName], typeB.fields[fieldName])
    ELSE typeA.type = typeB.type

\* mutant: records must have exactly the same field names
isAssignableRecordExact(typeA, typeB) ==
    IF isRecordTypeDesc(typeA) /\ isRecordTypeDesc(typeB)
    THEN /\ DOMAIN typeA.fields = DOMAIN typeB.fields
         /\ \A fieldName \in DOMAIN typeA.fields :
               isAssignable(typeA.fields[fieldName], typeB.fields[fieldName])
    ELSE IF isErrorType(typeA) \/ isErrorType(typeB) THEN TRUE
    ELSE IF isArrayTypeDesc(typeA) /\ isArrayTypeDesc(typeB)
         THEN isAssignable(typeA.elementType, typeB.elementType)
    ELSE IF isUserTypeDesc(typeA) /\ isUserTypeDesc(typeB)
         THEN isAssignable(typeA.baseType, typeB.baseType)
    ELSE typeA.type = typeB.type

\* mutant: arrays also compare their bounds
isAssignableArrayBounds(typeA, typeB) ==
    IF isErrorType(typeA) \/ isErrorType(typeB) THEN TRUE
    ELSE IF isArrayTypeDesc(typeA) /\ isArrayTypeDesc(typeB)
         THEN /\ typeA.rightBound = typeB.rightBound
              /\ typeA.leftBound = typeB.leftBound
              /\ isAssignable(typeA.elementType, typeB.elementType)
    ELSE IF isUserTypeDesc(typeA) /\ isUserTypeDesc(typeB)
         THEN isAssignable(typeA.baseType, typeB.baseType)
    ELSE IF isRecordTypeDesc(typeA) /\ isRecordTypeDesc(typeB)
         THEN \A fieldName \in DOMAIN typeA.fields :
                 /\ fieldName \in DOMAIN typeB.fields
                 /\ isAssignable(typeA.fields[fieldName], typeB.fields[fieldName])
    ELSE typeA.type = typeB.type

\* mutant: a number target accepts a string
isAssignableNumberFromString(typeA, typeB) ==
    IF isErrorType(typeA) \/ isErrorType(typeB) THEN TRUE
    ELSE IF typeA.type = typeB.type THEN TRUE
    ELSE isNumberType(typeA) /\ isStringType(typeB)

\* mutant: a string target accepts number and boolean (the earlier revision)
isAssignableStringWide(typeA, typeB) ==
    IF isErrorType(typeA) \/ isErrorType(typeB) THEN TRUE
    ELSE IF typeA.type = typeB.type THEN TRUE
    ELSE IF isStringType(typeA)
         THEN isStringType(typeB) \/ isNumberType(typeB) \/ isBooleanType(typeB)
    ELSE FALSE

isAssignable(typeA, typeB) ==
    IF isErrorType(typeA) \/ isErrorType(typeB) THEN TRUE
    ELSE IF typeA.type = typeB.type THEN
        IF isArrayTypeDesc(typeA) /\ isArrayTypeDesc(typeB)
        THEN isAssignable(typeA.elementType, typeB.elementType)
        ELSE IF isUserTypeDesc(typeA) /\ isUserTypeDesc(typeB)
        THEN isAssignable(typeA.baseType, typeB.baseType)
        ELSE IF isRecordTypeDesc(typeA) /\ isRecordTypeDesc(typeB)
        THEN \A fieldName \in DOMAIN typeA.fields :
                /\ fieldName \in DOMAIN typeB.fields
                /\ isAssignable(typeA.fields[fieldName], typeB.fields[fieldName])
        ELSE TRUE
    ELSE IF isNumberType(typeA) /\ isNumberType(typeB) THEN TRUE
    ELSE IF isStringType(typeA) THEN isStringType(typeB)
    ELSE IF isDateType(typeA) /\ isDateType(typeB) THEN TRUE
    ELSE IF isTimeType(typeA) /\ isTimeType(typeB) THEN TRUE
    ELSE IF isDateTimeType(typeA) /\ isDateTimeType(typeB) THEN TRUE
    ELSE FALSE

(***************************************************************************)
(* The type descriptions the assignability checks are run on.              *)
(***************************************************************************)
FieldNames == {"a", "b"}

OptionalNumbers == {None, MaxBound}

BaseTypes ==
    {createErrorType("Could not infer type", None), createUnknownTypeDescription,
     createBooleanTypeDescription(None),
     createDateTypeDescription, createTimeTypeDescription,
     createDateTimeTypeDescription}
    \cup {createNumberTypeDescription(None, p, p) : p \in OptionalNumbers}
    \cup {createStringTypeDescription(None, l) : l \in OptionalNumbers}

ArraysOf(elems) ==
    {createArrayTypeDescription(e, r, l) :
        e \in elems, r \in 1..MaxBound, l \in {None, 1}}

RecordsOf(elems) ==
    UNION {{createRecordTypeDescription(f) : f \in [names -> elems]} :
              names \in SUBSET FieldNames}

UsersOf(elems) == {createUserTypeDescription(e) : e \in elems}

\* one constructor applied to base types
FlatTypes == BaseTypes \cup ArraysOf(BaseTypes) \cup RecordsOf(BaseTypes)
                 \cup UsersOf(BaseTypes)

\* a constructor applied to a constructed type
NestedSeeds ==
    ArraysOf({createNumberTypeDescription(None, None, None),
              createStringTypeDescription(None, None),
              createUnknownTypeDescription})
    \cup RecordsOf({createNumberTypeDescription(None, None, None),
                    createStringTypeDescription(None, None)})
    \cup UsersOf({createNumberTypeDescription(None, None, None),
                  createUnknownTypeDescription})

NestedTypes == ArraysOf(NestedSeeds) \cup UsersOf(NestedSeeds)
                   \cup {createRecordTypeDescription(f) : f \in [{"a"} -> NestedSeeds]}

VARIABLES typeA, typeB, assignable, applied

assignVars == <<typeA, typeB, assignable, applied>>

(***************************************************************************)
(* The state of a scope query (the scope provider of the language module). *)
(***************************************************************************)
VARIABLES
    document,  \* the linked document of the query: node id -> node
    context,   \* the ReferenceInfo of the query: [container, property]
    scope,     \* what getScope returned: [raised, elements]
    resolved   \* getScope has been called

scopeVars == <<document, context, scope, resolved>>

NoContext == [container |-> 0, property |-> ""]

NoScope == [raised |-> FALSE, elements |-> <<>>]

\* no scope query in this run
ScopeIdle ==
    /\ document = <<>>
    /\ context = NoContext
    /\ scope = NoScope
    /\ resolved = FALSE

\* the variables the analysis of a tree leaves alone
otherVars == <<assignVars, scopeVars>>


(***************************************************************************)
(* The syntax tree (generated/ast.ts shapes of atlantis-vip.langium) as an *)
(* arena `nodes`: node i is nodes[i], children and containers are ids.     *)
(***************************************************************************)
VARIABLES
    tree,         \* the parsed expressions: the nodes after the declarations
    cache,        \* the caller-owned memo table: node id -> type, NoType if absent
    stack,        \* the call stack of the running analysis, top frame last
    ret,          \* the value a call has just returned to its caller, NoType if none
    result,       \* what the last finished top-level call returned
    diagnostics,  \* what the validator check in progress has accepted
    raised,       \* an exception escaped the running call
    phase,        \* "build", "run", "idle", "rerun", "end"
    call,         \* the top-level call running or last run: [fn, node]
    first         \* the first finished top-level call: what was called, what came back

treeVars ==
    <<tree, cache, stack, ret, result, diagnostics, raised, phase, call, first>>

vars == <<treeVars, assignVars, scopeVars>>

\* a node with every property absent
Blank ==
    [kind |-> "", container |-> None, name |-> "", operator |-> "",
     value |-> None, left |-> None, right |-> None, previous |-> None,
     expression |-> None, hasElement |-> FALSE, refText |-> "",
     explicitOperationCall |-> FALSE, arguments |-> <<>>,
     declType |-> None, arrayType |-> None, leftBound |-> None,
     rightBound |-> None, precision |-> None, scale |-> None, length |-> None,
     reference |-> "", fieldsOfTypes |-> <<>>]

\* Blank with the properties of `props` set
Node(props) ==
    [p \in DOMAIN Blank |-> IF p \in DOMAIN props THEN props[p] ELSE Blank[p]]

\* The declarations of the document every expression is analysed in:
\*   type R = record a: integer; b: string; end;
\*   type D = record a: integer; a, c: string; end;
\*   type U = integer;   type UR = R;
\*   type N = record r: R; n: integer; end;
\*   var x: integer; b: boolean; s: string[2]; q: decimal[2,1]; d: date; t: time;
\*       dt: _datetime; arr: array[1..10] of integer;
\*       mat: array[2] of array[2] of string; r: R; bad: array[2] of <missing>;
\*       ur: UR; ar: array[1..2] of R; au: array[2] of U;
\*       af: array[1..3] of decimal[2,1];
\*   interface I; view V ...; end.
\* and two Variable nodes outside any VarsOfType (orphan, stray).
Declarations == <<
    [kind |-> "Model"],  \* 1
    [kind |-> "Interface", container |-> 1, name |-> "I"],  \* 2
    [kind |-> "View", container |-> 2, name |-> "V"],  \* 3
    [kind |-> "Record", container |-> 1, name |-> "R",
         fieldsOfTypes |-> <<[fields |-> <<"a">>, declType |-> 5], [fields |-> <<"b">>,
         declType |-> 6]>>],  \* 4
    [kind |-> "IntType", container |-> 4],  \* 5
    [kind |-> "StringType", container |-> 4, length |-> 0],  \* 6
    [kind |-> "Record", container |-> 1, name |-> "D",
         fieldsOfTypes |-> <<[fields |-> <<"a">>, declType |-> 8], [fields |-> <<"a",
         "c">>, declType |-> 9]>>],  \* 7
    [kind |-> "IntType", container |-> 7],  \* 8
    [kind |-> "StringType", container |-> 7, length |-> 0],  \* 9
    [kind |-> "UserType", container |-> 1, name |-> "U", declType |-> 11],  \* 10
    [kind |-> "IntType", container |-> 10],  \* 11
    [kind |-> "UserType", container |-> 1, name |-> "UR", declType |-> 13],  \* 12
    [kind |-> "TypeReference", container |-> 12, reference |-> "R"],  \* 13
    [kind |-> "VarsOfType", container |-> 1, declType |-> 15],  \* 14
    [kind |-> "IntType", container |-> 14],  \* 15
    [kind |-> "Variable", container |-> 14, name |-> "x"],  \* 16
    [kind |-> "VarsOfType", container |-> 1, declType |-> 18],  \* 17
    [kind |-> "BooleanType", container |-> 17],  \* 18
    [kind |-> "Variable", container |-> 17, name |-> "b"],  \* 19
    [kind |-> "VarsOfType", container |-> 1, declType |-> 21],  \* 20
    [kind |-> "StringType", container |-> 20, length |-> 2],  \* 21
    [kind |-> "Variable", container |-> 20, name |-> "s"],  \* 22
    [kind |-> "VarsOfType", container |-> 1, declType |-> 24],  \* 23
    [kind |-> "FloatType", container |-> 23, precision |-> 2, scale |-> 1],  \* 24
    [kind |-> "Variable", container |-> 23, name |-> "q"],  \* 25
    [kind |-> "VarsOfType", container |-> 1, declType |-> 27],  \* 26
    [kind |-> "DateType", container |-> 26],  \* 27
    [kind |-> "Variable", container |-> 26, name |-> "d"],  \* 28
    [kind |-> "VarsOfType", container |-> 1, declType |-> 30],  \* 29
    [kind |-> "TimeType", container |-> 29],  \* 30
    [kind |-> "Variable", container |-> 29, name |-> "t"],  \* 31
    [kind |-> "VarsOfType", container |-> 1, declType |-> 33],  \* 32
    [kind |-> "DateTimeType", container |-> 32],  \* 33
    [kind |-> "Variable", container |-> 32, name |-> "dt"],  \* 34
    [kind |-> "VarsOfType", container |-> 1, declType |-> 36],  \* 35
    [kind |-> "ArrayType", container |-> 35, leftBound |-> 1, rightBound |-> 10,
         arrayType |-> 37],  \* 36
    [kind |-> "IntType", container |-> 36],  \* 37
    [kind |-> "Variable", container |-> 35, name |-> "arr"],  \* 38
    [kind |-> "VarsOfType", container |-> 1, declType |-> 40],  \* 39
    [kind |-> "ArrayType", container |-> 39, leftBound |-> 0, rightBound |-> 2,
         arrayType |-> 41],  \* 40
    [kind |-> "ArrayType", container |-> 40, leftBound |-> 0, rightBound |-> 2,
         arrayType |-> 42],  \* 41
    [kind |-> "StringType", container |-> 41, length |-> 0],  \* 42
    [kind |-> "Variable", container |-> 39, name |-> "mat"],  \* 43
    [kind |-> "VarsOfType", container |-> 1, declType |-> 45],  \* 44
    [kind |-> "TypeReference", container |-> 44, reference |-> "R"],  \* 45
    [kind |-> "Variable", container |-> 44, name |-> "r"],  \* 46
    [kind |-> "VarsOfType", container |-> 1, declType |-> 48],  \* 47
    [kind |-> "ArrayType", container |-> 47, leftBound |-> 0, rightBound |-> 2],  \* 48
    [kind |-> "Variable", container |-> 47, name |-> "bad"],  \* 49
    [kind |-> "Variable", name |-> "orphan"],  \* 50
    [kind |-> "Variable", container |-> 1, name |-> "stray"],  \* 51
    [kind |-> "VarsOfType", container |-> 1, declType |-> 53],  \* 52
    [kind |-> "TypeReference", container |-> 52, reference |-> "UR"],  \* 53
    [kind |-> "Variable", container |-> 52, name |-> "ur"],  \* 54
    [kind |-> "VarsOfType", container |-> 1, declType |-> 56],  \* 55
    [kind |-> "ArrayType", container |-> 55, leftBound |-> 1, rightBound |-> 2,
         arrayType |-> 57],  \* 56
    [kind |-> "TypeReference", container |-> 56, reference |-> "R"],  \* 57
    [kind |-> "Variable", container |-> 55, name |-> "ar"],  \* 58
    [kind |-> "VarsOfType", container |-> 1, declType |-> 60],  \* 59
    [kind |-> "ArrayType", container |-> 59, leftBound |-> 0, rightBound |-> 2,
         arrayType |-> 61],  \* 60
    [kind |-> "TypeReference", container |-> 60, reference |-> "U"],  \* 61
    [kind |-> "Variable", container |-> 59, name |-> "au"],  \* 62
    [kind |-> "VarsOfType", container |-> 1, declType |-> 64],  \* 63
    [kind |-> "ArrayType", container |-> 63, leftBound |-> 1, rightBound |-> 3,
         arrayType |-> 65],  \* 64
    [kind |-> "FloatType", container |-> 64, precision |-> 2, scale |-> 1],  \* 65
    [kind |-> "Variable", container |-> 63, name |-> "af"],  \* 66
    [kind |-> "Record", container |-> 1, name |-> "N",
         fieldsOfTypes |-> <<[fields |-> <<"r">>, declType |-> 68],
         [fields |-> <<"n">>, declType |-> 69]>>],  \* 67
    [kind |-> "TypeReference", container |-> 67, reference |-> "R"],  \* 68
    [kind |-> "IntType", container |-> 67]  \* 69
>>

\* the declarations as nodes
Prelude == [i \in 1..Len(Declarations) |-> Node(Declarations[i])]

PreludeSize == Len(Prelude)

ModelNode == CHOOSE i \in 1..PreludeSize : Prelude[i].kind = "Model"

ViewNode == CHOOSE i \in 1..PreludeSize : Prelude[i].kind = "View"

\* the arena: the declarations, then the parsed expressions
nodes == Prelude \o tree

\* the kinds of the NamedElement union: View | NamedViewField | Variable | Type
NamedElementKinds == {"View", "NamedViewField", "Variable", "Record", "UserType"}

isNamedElement(id) == id # None /\ nodes[id].kind \in NamedElementKinds

isVariable(id) == id # None /\ nodes[id].kind = "Variable"

isRecord(id) == id # None /\ nodes[id].kind = "Record"

isUserType(id) == id # None /\ nodes[id].kind = "UserType"

isType(id) == isRecord(id) \/ isUserType(id)

isView(id) == id # None /\ nodes[id].kind = "View"

isInterface(id) == id # None /\ nodes[id].kind = "Interface"

isVarsOfType(id) == id # None /\ nodes[id].kind = "VarsOfType"

isArrayType(id) == id # None /\ nodes[id].kind = "ArrayType"

\* `'expression' in node && node.expression`: a node exposing one inner expression
hasExpression(id) == id # None /\ nodes[id].expression # None

\* the linker's result for a cross-reference [NamedElement:ID] with this text:
\* the declaration of that name, None when there is none
ElementRef(refText) ==
    LET found == {i \in 1..Len(nodes) :
                     nodes[i].kind \in NamedElementKinds /\ nodes[i].name = refText}
    IN IF found = {} THEN None ELSE CHOOSE i \in found : TRUE

\* the linker's result for a cross-reference [Type:ID]
TypeRefTarget(refText) ==
    LET found == {i \in 1..Len(nodes) :
                     nodes[i].kind \in {"Record", "UserType"} /\ nodes[i].name = refText}
    IN IF found = {} THEN None ELSE CHOOSE i \in found : TRUE

(***************************************************************************)
(* grammarTypeToTypeDescription (descriptions.ts)                          *)
(***************************************************************************)
RECURSIVE grammarTypeToTypeDescription(_)

grammarTypeToTypeDescription(typeRef) ==
    IF typeRef = None THEN createUnknownTypeDescription
    ELSE LET n == nodes[typeRef] IN
      CASE n.kind = "BooleanType" -> createBooleanTypeDescription(None)
        [] n.kind = "IntType" -> createNumberTypeDescription(None, None, None)
        [] n.kind = "FloatType" ->
             createNumberTypeDescription(None, n.precision, n.scale)
        [] n.kind = "StringType" -> createStringTypeDescription(None, n.length)
        [] n.kind = "DateType" -> createDateTypeDescription
        [] n.kind = "TimeType" -> createTimeTypeDescription
        [] n.kind = "DateTimeType" -> createDateTimeTypeDescription
        [] n.kind = "ArrayType" ->
             IF n.arrayType = None
             THEN createErrorType("Array type must specify element type", None)
             ELSE createArrayTypeDescription(
                      grammarTypeToTypeDescription(n.arrayType),
                      n.rightBound, n.leftBound)
        \* a reference to a Record or a UserType, resolved or not: unknown
        [] OTHER -> createUnknownTypeDescription

(***************************************************************************)
(* The inference functions of infer.ts that call nothing memoized.         *)
(***************************************************************************)
\* mutant: the test for the owning VarsOfType is made on the variable itself
inferVariableTypeOwnKind(node) ==
    IF ~isVariable(node) \/ nodes[node].container = None
    THEN createErrorType("Not a valid variable", node)
    ELSE IF isVarsOfType(node)
    THEN grammarTypeToTypeDescription(nodes[node].declType)
    ELSE createErrorType("Could not determine variable type", node)

inferVariableType(node) ==
    IF ~isVariable(node) \/ nodes[node].container = None
    THEN createErrorType("Not a valid variable", node)
    ELSE IF isVarsOfType(nodes[node].container)
    THEN grammarTypeToTypeDescription(nodes[nodes[node].container].declType)
    ELSE createErrorType("Could not determine variable type", node)

\* the names set by the groups fieldsOfTypes[1..k], each with the type of the
\* last group that names it (Map.set overwrites)
RECURSIVE RecordFieldsMap(_, _)

RecordFieldsMap(fieldsOfTypes, k) ==
    IF k = 0 THEN <<>>
    ELSE LET before == RecordFieldsMap(fieldsOfTypes, k - 1)
             group == fieldsOfTypes[k]
             names == {group.fields[i] : i \in 1..Len(group.fields)}
             fieldType == grammarTypeToTypeDescription(group.declType)
         IN [n \in DOMAIN before \cup names |->
                IF n \in names THEN fieldType ELSE before[n]]

inferRecordType(node) ==
    IF ~isRecord(node) THEN createErrorType("Not a valid record", node)
    ELSE createRecordTypeDescription(
             RecordFieldsMap(nodes[node].fieldsOfTypes, Len(nodes[node].fieldsOfTypes)))

\* mutant: any base type makes a user type
inferUserTypeAnyBase(node) ==
    IF ~isUserType(node) THEN createErrorType("Not a valid user type", node)
    ELSE createUserTypeDescription(grammarTypeToTypeDescription(nodes[node].declType))

inferUserType(node) ==
    IF ~isUserType(node) THEN createErrorType("Not a valid user type", node)
    ELSE LET baseType == grammarTypeToTypeDescription(nodes[node].declType) IN
         IF isErrorType(baseType) \/ isUnknownType(baseType)
         THEN createErrorType(
                  "Invalid base type for user type '" \o nodes[node].name \o "'", node)
         ELSE createUserTypeDescription(baseType)

\* mutant: a view has no type the engine can give
inferViewTypeError(node) == createErrorType("Could not infer type", node)

inferViewType(node) == createUnknownTypeDescription

inferInterfaceType(node) == createUnknownTypeDescription

\* the loop of inferSelfReference: the nearest View or Interface from `container` up
RECURSIVE ViewOrInterfaceAbove(_)

ViewOrInterfaceAbove(container) ==
    IF container # None /\ ~isView(container) /\ ~isInterface(container)
    THEN ViewOrInterfaceAbove(nodes[container].container)
    ELSE container

inferSelfReference(node) ==
    LET container == ViewOrInterfaceAbove(node) IN
    IF isView(container) THEN inferViewType(container)
    ELSE IF isInterface(container) THEN inferInterfaceType(container)
    ELSE createErrorType("Self reference outside of view or interface", node)

\* mutant: an array answers every property name with a number
inferPropertyAccessAnyArrayProperty(node, receiverType) ==
    LET propertyName == IF nodes[node].hasElement THEN nodes[node].refText ELSE "" IN
    IF propertyName = "" THEN createErrorType("Missing property name", node)
    ELSE IF isArrayTypeDesc(receiverType)
    THEN createNumberTypeDescription(None, None, None)
    ELSE IF isRecordTypeDesc(receiverType) /\ propertyName \in DOMAIN receiverType.fields
    THEN receiverType.fields[propertyName]
    ELSE IF isUserTypeDesc(receiverType) /\ isRecordTypeDesc(receiverType.baseType)
            /\ propertyName \in DOMAIN receiverType.baseType.fields
    THEN receiverType.baseType.fields[propertyName]
    ELSE createErrorType("Property access failed", node)

inferPropertyAccess(node, receiverType) ==
    LET propertyName == IF nodes[node].hasElement THEN nodes[node].refText ELSE "" IN
    IF propertyName = "" THEN createErrorType("Missing property name", node)
    ELSE IF isArrayTypeDesc(receiverType) THEN
        IF propertyName = "length" THEN createNumberTypeDescription(None, None, None)
        ELSE createErrorType(
                 "Property '" \o propertyName \o "' not found on array type", node)
    ELSE IF isRecordTypeDesc(receiverType) THEN
        IF propertyName \in DOMAIN receiverType.fields
        THEN receiverType.fields[propertyName]
        ELSE createErrorType("Field '" \o propertyName \o "' not found in record", node)
    ELSE IF isUserTypeDesc(receiverType) THEN
        LET baseType == receiverType.baseType IN
        IF isRecordTypeDesc(baseType) THEN
            IF propertyName \in DOMAIN baseType.fields
            THEN baseType.fields[propertyName]
            ELSE createErrorType(
                     "Field '" \o propertyName \o "' not found in user type", node)
        ELSE createErrorType(
                 "User type does not support member access for non-record base types",
                 node)
    ELSE createErrorType(
             "Type '" \o receiverType.type \o "' does not support property access", node)

(***************************************************************************)
(* The rules of inferUnaryExpressionType, inferBinaryExpressionType and    *)
(* inferExplicitOperationCall once their operands have been inferred.      *)
(***************************************************************************)
ComparisonOperators == {"=", "!=", "<>", ">", "<", ">=", "<="}

LogicalOperators == {"and", "or"}

ArithmeticOperators == {"+", "-", "*", "/", "^", "mod", "div"}

\* mutant: an operand's error is replaced by an error of the expression, as
\* the binary rule does
inferUnaryExpressionTypeNewError(node, valueType) ==
    IF isErrorType(valueType) THEN createErrorType("Error in operand types", node)
    ELSE IF nodes[node].operator = "not"
    THEN IF isBooleanType(valueType) THEN valueType
         ELSE createErrorType("Logical not requires boolean type", node)
    ELSE IF isNumberType(valueType) THEN valueType
    ELSE createErrorType(
             IF nodes[node].operator = "-" THEN "Unary minus requires numeric type"
             ELSE "Unary plus requires numeric type", node)

inferUnaryExpressionType(node, valueType) ==
    IF isErrorType(valueType) THEN valueType
    ELSE CASE nodes[node].operator = "-" ->
                IF isNumberType(valueType) THEN valueType
                ELSE createErrorType("Unary minus requires numeric type", node)
           [] nodes[node].operator = "+" ->
                IF isNumberType(valueType) THEN valueType
                ELSE createErrorType("Unary plus requires numeric type", node)
           [] nodes[node].operator = "not" ->
                IF isBooleanType(valueType) THEN valueType
                ELSE createErrorType("Logical not requires boolean type", node)
           [] OTHER -> createErrorType("Unknown unary operator", node)

\* inferBinaryExpressionType past its operand check: the rule of the operator
BinaryOperatorRule(node, leftType, rightType) ==
    LET operator == nodes[node].operator IN
    IF operator \in ComparisonOperators THEN
        LET isComparison ==
                \/ isNumberType(leftType) /\ isNumberType(rightType)
                \/ isStringType(leftType) /\ isStringType(rightType)
                \/ isDateType(leftType) /\ isDateType(rightType)
                \/ isTimeType(leftType) /\ isTimeType(rightType)
                \/ isDateTimeType(leftType) /\ isDateTimeType(rightType)
                \/ operator = "=" /\ isBooleanType(leftType) /\ isBooleanType(rightType)
        IN IF isComparison THEN createBooleanTypeDescription(None)
           ELSE createErrorType("Incompatible types for comparison", node)
    ELSE IF operator \in LogicalOperators THEN
        IF isBooleanType(leftType) /\ isBooleanType(rightType)
        THEN createBooleanTypeDescription(None)
        ELSE createErrorType("Logical operators require boolean operands", node)
    ELSE IF operator \in ArithmeticOperators THEN
        IF operator = "+" /\ (isStringType(leftType) \/ isStringType(rightType))
        THEN LET otherType == IF isStringType(leftType) THEN rightType ELSE leftType IN
             IF isStringType(otherType) \/ isNumberType(otherType)
                    \/ isBooleanType(otherType)
             THEN createStringTypeDescription(None, None)
             ELSE createErrorType("Cannot concatenate with string", node)
        ELSE IF isNumberType(leftType) /\ isNumberType(rightType)
             THEN createNumberTypeDescription(None, None, None)
             ELSE createErrorType("Arithmetic operators require numeric operands", node)
    ELSE createErrorType("Unknown operator", node)

\* mutant: an operand's error is handed on as it is, as the unary rule does
inferBinaryExpressionTypePropagates(node, leftType, rightType) ==
    IF isErrorType(leftType) THEN leftType
    ELSE IF isErrorType(rightType) THEN rightType
    ELSE BinaryOperatorRule(node, leftType, rightType)

\* mutant: concatenation does not take a boolean as the other operand
inferBinaryExpressionTypeNoBooleanConcat(node, leftType, rightType) ==
    IF isErrorType(leftType) \/ isErrorType(rightType)
    THEN createErrorType("Error in operand types", node)
    ELSE IF /\ nodes[node].operator = "+"
            /\ \/ isStringType(leftType) /\ isBooleanType(rightType)
               \/ isBooleanType(leftType) /\ isStringType(rightType)
    THEN createErrorType("Cannot concatenate with string", node)
    ELSE BinaryOperatorRule(node, leftType, rightType)

\* mutant: two booleans compare under every equality operator, not only `=`
inferBinaryExpressionTypeBooleanUnequal(node, leftType, rightType) ==
    IF isErrorType(leftType) \/ isErrorType(rightType)
    THEN createErrorType("Error in operand types", node)
    ELSE IF /\ nodes[node].operator \in {"!=", "<>"}
            /\ isBooleanType(leftType) /\ isBooleanType(rightType)
    THEN createBooleanTypeDescription(None)
    ELSE BinaryOperatorRule(node, leftType, rightType)

\* inferBinaryExpressionType once both operands have been inferred
inferBinaryExpressionType(node, leftType, rightType) ==
    IF isErrorType(leftType) \/ isErrorType(rightType)
    THEN createErrorType("Error in operand types", node)
    ELSE BinaryOperatorRule(node, leftType, rightType)

\* mutant: any call with arguments on an array indexes it by the first one
isArrayIndexingAnyArity(node, receiverType) ==
    isArrayTypeDesc(receiverType) /\ Len(nodes[node].arguments) >= 1

\* inferExplicitOperationCall up to its call of inferType: is this array indexing
isArrayIndexing(node, receiverType) ==
    isArrayTypeDesc(receiverType) /\ Len(nodes[node].arguments) = 1

\* inferExplicitOperationCall after the index has been inferred
inferArrayIndexing(node, receiverType, indexType) ==
    IF isNumberType(indexType) THEN receiverType.elementType
    ELSE createErrorType("Array index must be a number", node)

(***************************************************************************)
(* inferType and the functions it calls back through, as a stack machine:  *)
(* a frame is one activation, `pc` the call it is waiting for.             *)
(***************************************************************************)
NoType == [type |-> "none"]

Void == [type |-> "void"]

Frame(fn, node, pc, saved) == [fn |-> fn, node |-> node, pc |-> pc, saved |-> saved]

\* what an activation does next: return `type`, call inferType(target) and
\* wait at `pc`, or throw
Return(type) == [op |-> "ret", type |-> type]

Call(target, pc, saved) == [op |-> "call", target |-> target, pc |-> pc, saved |-> saved]

Throw == [op |-> "throw"]

\* new Map(): no entry
NewMap == <<>>

\* mutant: the lookup never finds an entry
CacheGetNothing(node) == NoType

\* mutant: the mark of the node in progress outlives the call that set it
CacheGetMarkKept(node) ==
    IF node \in DOMAIN cache THEN cache[node]
    ELSE IF first.fn = "inferType" /\ first.node = node
         THEN createErrorType("Recursive definition", node)
    ELSE NoType

\* cache.get(node): the entry, or NoType for undefined
CacheGet(node) == IF node \in DOMAIN cache THEN cache[node] ELSE NoType

\* mutant: the memo forgets its other entries
CacheSetAlone(node, type) == [i \in {node} |-> type]

\* mutant: an entry, once set, is never replaced
CacheSetOnce(node, type) ==
    [i \in DOMAIN cache \cup {node} |-> IF i \in DOMAIN cache THEN cache[i] ELSE type]

\* cache.set(node, type)
CacheSet(node, type) ==
    [i \in DOMAIN cache \cup {node} |-> IF i = node THEN type ELSE cache[i]]

inferNamedElementReference(element) ==
    IF isVariable(element) THEN Return(inferVariableType(element))
    ELSE IF isRecord(element) THEN Return(inferRecordType(element))
    ELSE IF isUserType(element) THEN Return(inferUserType(element))
    ELSE Call(element, "element", NoType)

\* mutant: node.element is read without the guard for a missing element
inferMemberCallTypeUnguarded(node) ==
    IF nodes[node].previous = None THEN
        IF ~nodes[node].hasElement THEN Throw
        ELSE IF nodes[node].refText = "self" THEN Return(inferSelfReference(node))
        ELSE IF isNamedElement(ElementRef(nodes[node].refText))
             THEN inferNamedElementReference(ElementRef(nodes[node].refText))
        ELSE Return(createErrorType(
                        "Unknown reference '" \o nodes[node].refText \o "'", node))
    ELSE Call(nodes[node].previous, "previous", NoType)

\* inferMemberCallType up to its first call of inferType
inferMemberCallType(node) ==
    IF nodes[node].previous = None THEN
        IF ~nodes[node].hasElement
        THEN Return(createErrorType("Missing element reference", node))
        ELSE IF nodes[node].refText = "self" THEN Return(inferSelfReference(node))
        ELSE IF isNamedElement(ElementRef(nodes[node].refText))
             THEN inferNamedElementReference(ElementRef(nodes[node].refText))
        ELSE Return(createErrorType(
                        "Unknown reference '" \o nodes[node].refText \o "'", node))
    ELSE Call(nodes[node].previous, "previous", NoType)

\* inferMemberCallType once the receiver has been inferred
inferMemberCallOnReceiver(node, receiverType) ==
    IF isErrorType(receiverType) THEN Return(receiverType)
    ELSE IF nodes[node].explicitOperationCall THEN
        IF isArrayIndexing(node, receiverType)
        THEN Call(nodes[node].arguments[1], "index", receiverType)
        ELSE Return(createErrorType(
                        "Function call type inference not implemented", node))
    ELSE IF nodes[node].hasElement THEN Return(inferPropertyAccess(node, receiverType))
    ELSE Return(createErrorType("Invalid member call", node))

\* the chain of type tests of inferType, for a node that is not memoized
inferTypeDispatch(node) ==
    LET n == nodes[node] IN
    CASE n.kind = "StringLiteral" -> Return(createStringTypeDescription(node, None))
      [] n.kind = "BooleanLiteral" -> Return(createBooleanTypeDescription(node))
      [] n.kind = "NumberLiteral" ->
           Return(createNumberTypeDescription(node, None, None))
      [] n.kind = "ArrayType" ->
           Return(createArrayTypeDescription(
                      IF n.arrayType # None
                      THEN grammarTypeToTypeDescription(n.arrayType)
                      ELSE createErrorType("Missing array element type", node),
                      n.rightBound, n.leftBound))
      [] n.kind = "Variable" -> Return(inferVariableType(node))
      [] n.kind = "Record" -> Return(inferRecordType(node))
      [] n.kind = "UserType" -> Return(inferUserType(node))
      [] n.kind = "MemberCall" -> inferMemberCallType(node)
      [] n.kind = "UnaryExpression" -> Call(n.value, "value", NoType)
      [] n.kind = "BinaryExpression" -> Call(n.left, "left", NoType)
      [] OTHER -> IF hasExpression(node) THEN Call(n.expression, "expression", NoType)
                  ELSE Return(createErrorType("Could not infer type", node))

\* an activation of inferType waiting at frame.pc gets `val` back
inferTypeResume(frame, val) ==
    LET node == frame.node IN
    CASE frame.pc = "element" -> Return(val)
      [] frame.pc = "previous" -> inferMemberCallOnReceiver(node, val)
      [] frame.pc = "index" -> Return(inferArrayIndexing(node, frame.saved, val))
      [] frame.pc = "value" -> Return(inferUnaryExpressionType(node, val))
      [] frame.pc = "left" -> Call(nodes[node].right, "right", val)
      [] frame.pc = "right" -> Return(inferBinaryExpressionType(node, frame.saved, val))
      [] frame.pc = "expression" -> Return(val)

(***************************************************************************)
(* The validator: what each check accepts once its operands are inferred.  *)
(***************************************************************************)
Diagnostic(message, node) == [severity |-> "error", message |-> message, node |-> node]

\* checkBinaryExpression past its operand check: the rule of the operator
checkBinaryOperatorRule(expression, leftType, rightType) ==
    LET operator == nodes[expression].operator IN
    IF operator \in ComparisonOperators THEN
        LET isComparison ==
                \/ isNumberType(leftType) /\ isNumberType(rightType)
                \/ isStringType(leftType) /\ isStringType(rightType)
                \/ isDateType(leftType) /\ isDateType(rightType)
                \/ isTimeType(leftType) /\ isTimeType(rightType)
                \/ isDateTimeType(leftType) /\ isDateTimeType(rightType)
                \/ operator = "=" /\ isBooleanType(leftType) /\ isBooleanType(rightType)
        IN IF ~isComparison
           THEN <<Diagnostic("Incompatible types for comparison", expression)>>
           ELSE <<>>
    ELSE IF operator \in LogicalOperators THEN
        IF ~isBooleanType(leftType) \/ ~isBooleanType(rightType)
        THEN <<Diagnostic("Logical operators require boolean operands", expression)>>
        ELSE <<>>
    ELSE IF operator \in ArithmeticOperators THEN
        IF operator = "+" /\ (isStringType(leftType) \/ isStringType(rightType))
        THEN LET otherType == IF isStringType(leftType) THEN rightType ELSE leftType IN
             IF ~isStringType(otherType) /\ ~isNumberType(otherType)
                    /\ ~isBooleanType(otherType)
             THEN <<Diagnostic("Cannot concatenate with string", expression)>>
             ELSE <<>>
        ELSE IF ~isNumberType(leftType) \/ ~isNumberType(rightType)
             THEN <<Diagnostic("Arithmetic operators require numeric operands",
                               expression)>>
             ELSE <<>>
    ELSE <<>>

\* mutant: the diagnostic of an erroneous operand is put on the expression
checkBinaryExpressionAnchorsWhole(expression, leftType, rightType) ==
    IF isErrorType(leftType) \/ isErrorType(rightType)
    THEN <<Diagnostic("Operand has an error type.", expression)>>
    ELSE checkBinaryOperatorRule(expression, leftType, rightType)

checkBinaryExpression(expression, leftType, rightType) ==
    IF isErrorType(leftType) \/ isErrorType(rightType)
    THEN <<Diagnostic("Operand has an error type.",
                      IF isErrorType(leftType) THEN nodes[expression].left
                      ELSE nodes[expression].right)>>
    ELSE checkBinaryOperatorRule(expression, leftType, rightType)

checkMemberCall(memberCall, type) ==
    IF isErrorType(type) THEN <<Diagnostic(type.message, memberCall)>> ELSE <<>>

\* mutant: only an erroneous operand is reported
checkUnaryExpressionOperandOnly(expression, valueType) ==
    IF isErrorType(valueType)
    THEN <<Diagnostic("Operand has an error type.", nodes[expression].value)>>
    ELSE <<>>

checkUnaryExpression(expression, valueType) ==
    IF isErrorType(valueType)
    THEN <<Diagnostic("Operand has an error type.", nodes[expression].value)>>
    ELSE IF nodes[expression].operator \in {"-", "+"} THEN
        IF ~isNumberType(valueType)
        THEN <<Diagnostic("Unary plus/minus requires numeric type", expression)>>
        ELSE <<>>
    ELSE IF nodes[expression].operator = "not" THEN
        IF ~isBooleanType(valueType)
        THEN <<Diagnostic("Logical not requires boolean type", expression)>>
        ELSE <<>>
    ELSE <<>>

\* the first call of inferType a check makes
CheckFirstCall(fn, node) ==
    CASE fn = "checkBinaryExpression" -> Call(nodes[node].left, "left", NoType)
      [] fn = "checkMemberCall" -> Call(node, "call", NoType)
      [] fn = "checkUnaryExpression" -> Call(nodes[node].value, "value", NoType)

\* an activation of a check waiting at frame.pc gets `val` back: the next call,
\* or the diagnostics it accepts before it returns
CheckResume(frame, val) ==
    CASE frame.fn = "checkBinaryExpression" /\ frame.pc = "left" ->
           Call(nodes[frame.node].right, "right", val)
      [] frame.fn = "checkBinaryExpression" /\ frame.pc = "right" ->
           [op |-> "ret", accepted |-> checkBinaryExpression(frame.node, frame.saved, val)]
      [] frame.fn = "checkMemberCall" ->
           [op |-> "ret", accepted |-> checkMemberCall(frame.node, val)]
      [] frame.fn = "checkUnaryExpression" ->
           [op |-> "ret", accepted |-> checkUnaryExpression(frame.node, val)]

(***************************************************************************)
(* The parser (an external collaborator): it appends nodes in post-order,  *)
(* a new node taking the last open expressions as its children.            *)
(***************************************************************************)
LiteralKinds == {"NumberLiteral", "StringLiteral", "BooleanLiteral"}

ViewFieldNames == {"f", "g"}

\* the texts of the references the parser reads: the variable x, self, and
\* f and g, which resolve only in a document that declares a field of that name
RefTexts == {"f", "g", "x", "self"}

\* the operators of the parsed trees (every operator: see SpecBinary)
UnaryOperators == {"not", "-"}

BinaryOperators == {"+", "="}

\* the expressions not yet placed under a parent, oldest first
OpenIds == {i \in PreludeSize + 1..Len(nodes) : nodes[i].container = None}

RECURSIVE SortedSeq(_)

SortedSeq(S) ==
    IF S = {} THEN <<>>
    ELSE LET m == CHOOSE x \in S : \A y \in S : y <= x
         IN Append(SortedSeq(S \ {m}), m)

\* the last k open expressions, oldest first
LastOpen(k) ==
    LET open == SortedSeq(OpenIds)
    IN SubSeq(open, Len(open) - k + 1, Len(open))

NameInUse(name) == \E i \in 1..Len(nodes) : nodes[i].name = name

\* the tree with `node` appended as the container of `children`
Attach(node, children) ==
    LET id == Len(nodes) + 1
        kids == {children[i] : i \in 1..Len(children)}
    IN Append([i \in 1..Len(tree) |->
                  IF i + PreludeSize \in kids
                  THEN [tree[i] EXCEPT !.container = id] ELSE tree[i]],
              node)

Building == phase = "build" /\ Len(tree) < MaxNodes

analysisVars == <<cache, stack, ret, result, diagnostics, raised, phase, call, first>>

ParseLiteral ==
    /\ Building
    /\ \E kind \in LiteralKinds : tree' = Attach(Node([kind |-> kind]), <<>>)
    /\ UNCHANGED <<analysisVars, otherVars>>

\* FeatureCall: a bare reference; no element where the parser recovered
ParseFeatureCall ==
    /\ Building
    /\ \E refText \in RefTexts \cup {""} :
          tree' = Attach(Node([kind |-> "MemberCall", hasElement |-> refText # "",
                               refText |-> refText]),
                         <<>>)
    /\ UNCHANGED <<analysisVars, otherVars>>

\* MemberCall on a receiver: `.element`, `.element(args)` or `(args)`
ParseMemberCall ==
    /\ Building
    /\ \E refText \in {"a", ""}, explicit \in BOOLEAN, nargs \in 0..MaxArgs :
          /\ refText # "" \/ explicit
          /\ nargs > 0 => explicit
          /\ nargs + 1 <= Cardinality(OpenIds)
          /\ LET kids == LastOpen(nargs + 1) IN
             tree' = Attach(Node([kind |-> "MemberCall", previous |-> kids[1],
                                  hasElement |-> refText # "", refText |-> refText,
                                  explicitOperationCall |-> explicit,
                                  arguments |-> SubSeq(kids, 2, nargs + 1)]),
                            kids)
    /\ UNCHANGED <<analysisVars, otherVars>>

\* UnaryExpression; the operand is missing where the parser recovered
ParseUnaryExpression ==
    /\ Building
    /\ \E operator \in UnaryOperators, withValue \in BOOLEAN :
          /\ withValue => OpenIds # {}
          /\ ~withValue => operator = "-"
          /\ LET kids == IF withValue THEN LastOpen(1) ELSE <<>> IN
             tree' = Attach(Node([kind |-> "UnaryExpression", operator |-> operator,
                                  value |-> IF withValue THEN kids[1] ELSE None]),
                            kids)
    /\ UNCHANGED <<analysisVars, otherVars>>

\* BinaryExpression; the right operand is missing where the parser recovered
ParseBinaryExpression ==
    /\ Building
    /\ \E operator \in BinaryOperators, withRight \in BOOLEAN :
          /\ Cardinality(OpenIds) >= (IF withRight THEN 2 ELSE 1)
          /\ ~withRight => operator = "+"
          /\ LET kids == LastOpen(IF withRight THEN 2 ELSE 1) IN
             tree' = Attach(Node([kind |-> "BinaryExpression", operator |-> operator,
                                  left |-> kids[1],
                                  right |-> IF withRight THEN kids[2] ELSE None]),
                            kids)
    /\ UNCHANGED <<analysisVars, otherVars>>

\* ExpressionStatement of the Model
ParseExpressionStatement ==
    /\ Building
    /\ OpenIds # {}
    /\ tree' = Attach(Node([kind |-> "ExpressionStatement", container |-> ModelNode,
                            expression |-> LastOpen(1)[1]]),
                      LastOpen(1))
    /\ UNCHANGED <<analysisVars, otherVars>>

\* NamedViewField or (name "") UnnamedViewField of the view V
ParseViewField ==
    /\ Building
    /\ OpenIds # {}
    /\ \E name \in ViewFieldNames \cup {""} :
          /\ name # "" => ~NameInUse(name)
          /\ tree' = Attach(Node([kind |-> IF name = "" THEN "UnnamedViewField"
                                           ELSE "NamedViewField",
                                  container |-> ViewNode, name |-> name,
                                  expression |-> LastOpen(1)[1]]),
                            LastOpen(1))
    /\ UNCHANGED <<analysisVars, otherVars>>

(***************************************************************************)
(* The callers of the engine: one top-level call, then possibly a second.  *)
(***************************************************************************)
NoCall == [fn |-> "none"]

CanStart == phase \in {"build", "idle"} /\ stack = <<>>

NextPhase == IF phase = "build" THEN "run" ELSE "rerun"

\* the nodes a caller passes: any parsed node; a declaration node or undefined
\* only in the document without expressions
Callable ==
    IF tree = <<>> THEN 0..PreludeSize ELSE PreludeSize + 1..Len(nodes)

\* inferType(node, memo) with a new memo, or with the memo of the call before
StartInferType ==
    /\ CanStart
    /\ \E node \in Callable, keep \in BOOLEAN :
          /\ keep => phase = "idle" /\ first.fn = "inferType"
          /\ (phase = "idle" /\ ~keep) => (first.fn = "inferType" /\ first.node = node)
          /\ cache' = IF keep THEN cache ELSE NewMap
          /\ stack' = <<Frame("inferType", node, "start", NoType)>>
          /\ call' = [fn |-> "inferType", node |-> node,
                       memo |-> IF keep THEN "kept" ELSE "new"]
    /\ phase' = NextPhase
    /\ diagnostics' = <<>>
    /\ raised' = FALSE
    /\ UNCHANGED <<tree, ret, result, first, otherVars>>

\* a validator check of `node`: new Map(), then the first inferType call
StartCheck ==
    /\ CanStart
    /\ \E fn \in {"checkBinaryExpression", "checkMemberCall", "checkUnaryExpression"},
          node \in PreludeSize + 1..Len(nodes) :
          /\ nodes[node].kind = CASE fn = "checkBinaryExpression" -> "BinaryExpression"
                                  [] fn = "checkMemberCall" -> "MemberCall"
                                  [] OTHER -> "UnaryExpression"
          /\ phase = "idle" => (first.fn = fn /\ first.node = node)
          /\ LET c == CheckFirstCall(fn, node) IN
             stack' = <<Frame(fn, node, c.pc, NoType),
                        Frame("inferType", c.target, "start", NoType)>>
          /\ call' = [fn |-> fn, node |-> node, memo |-> "new"]
    /\ cache' = NewMap
    /\ phase' = NextPhase
    /\ diagnostics' = <<>>
    /\ raised' = FALSE
    /\ UNCHANGED <<tree, ret, result, first, otherVars>>

Top == stack[Len(stack)]

Pop == SubSeq(stack, 1, Len(stack) - 1)

\* stack with its top frame now waiting at c.pc for inferType(c.target)
PushCall(c) ==
    Append([stack EXCEPT ![Len(stack)] = Frame(Top.fn, Top.node, c.pc, c.saved)],
           Frame("inferType", c.target, "start", NoType))

\* an exception unwinds every activation: nothing in the code catches
Unwind ==
    /\ raised' = TRUE
    /\ stack' = <<>>
    /\ ret' = Void

\* inferType is entered: undefined, memoized, or the provisional entry and
\* the dispatch, up to the first nested call or the return
InferTypeEnter ==
    /\ phase \in {"run", "rerun", "fill"}
    /\ stack # <<>> /\ ret = NoType
    /\ Top.fn = "inferType" /\ Top.pc = "start"
    /\ LET node == Top.node IN
       IF node = None
       THEN /\ ret' = createErrorType("Could not infer type for undefined", None)
            /\ stack' = Pop
            /\ UNCHANGED <<cache, raised>>
       ELSE IF CacheGet(node) # NoType
       THEN /\ ret' = CacheGet(node)
            /\ stack' = Pop
            /\ UNCHANGED <<cache, raised>>
       ELSE LET d == inferTypeDispatch(node) IN
            CASE d.op = "ret" ->
                   /\ cache' = CacheSet(node, d.type)
                   /\ ret' = d.type
                   /\ stack' = Pop
                   /\ UNCHANGED raised
              [] d.op = "call" ->
                   /\ Len(stack) < MaxStack
                   /\ cache' = CacheSet(node, createErrorType("Recursive definition", node))
                   /\ stack' = PushCall(d)
                   /\ UNCHANGED <<ret, raised>>
              [] d.op = "throw" ->
                   /\ cache' = CacheSet(node, createErrorType("Recursive definition", node))
                   /\ Unwind
    /\ UNCHANGED <<tree, result, diagnostics, phase, call, first, otherVars>>

\* a nested call returns into an activation of inferType
InferTypeResume ==
    /\ stack # <<>> /\ ret # NoType
    /\ Top.fn = "inferType"
    /\ LET r == inferTypeResume(Top, ret) IN
       CASE r.op = "ret" ->
              /\ cache' = CacheSet(Top.node, r.type)
              /\ ret' = r.type
              /\ stack' = Pop
              /\ UNCHANGED raised
         [] r.op = "call" ->
              /\ Len(stack) < MaxStack
              /\ stack' = PushCall(r)
              /\ ret' = NoType
              /\ UNCHANGED <<cache, raised>>
         [] r.op = "throw" -> Unwind /\ UNCHANGED cache
    /\ UNCHANGED <<tree, result, diagnostics, phase, call, first, otherVars>>

\* a call of inferType returns into a validator check
CheckResumes ==
    /\ stack # <<>> /\ ret # NoType
    /\ Top.fn # "inferType"
    /\ LET r == CheckResume(Top, ret) IN
       CASE r.op = "ret" ->
              /\ diagnostics' = r.accepted
              /\ ret' = Void
              /\ stack' = Pop
         [] r.op = "call" ->
              /\ stack' = PushCall(r)
              /\ ret' = NoType
              /\ UNCHANGED diagnostics
    /\ UNCHANGED <<tree, cache, result, raised, phase, call, first, otherVars>>

\* the top-level call is over
Finish ==
    /\ phase \in {"run", "rerun"}
    /\ stack = <<>> /\ ret # NoType
    /\ result' = ret
    /\ ret' = NoType
    /\ phase' = IF phase = "run" THEN "idle" ELSE "end"
    /\ first' = IF phase = "run"
                THEN [fn |-> call.fn, node |-> call.node, result |-> ret,
                      diagnostics |-> diagnostics, raised |-> raised]
                ELSE first
    /\ UNCHANGED <<tree, cache, stack, diagnostics, raised, call, otherVars>>

Parse ==
    \/ ParseLiteral
    \/ ParseFeatureCall
    \/ ParseMemberCall
    \/ ParseUnaryExpression
    \/ ParseBinaryExpression
    \/ ParseExpressionStatement
    \/ ParseViewField

Analyse ==
    \/ InferTypeEnter
    \/ InferTypeResume
    \/ CheckResumes
    \/ Finish

TreeInit ==
    /\ tree = <<>>
    /\ cache = NewMap
    /\ stack = <<>>
    /\ ret = NoType
    /\ result = NoType
    /\ diagnostics = <<>>
    /\ raised = FALSE
    /\ phase = "build"
    /\ call = NoCall
    /\ first = NoCall

Init ==
    /\ TreeInit
    /\ typeA = NoType /\ typeB = NoType /\ assignable = FALSE /\ applied = FALSE
    /\ ScopeIdle

Next == Parse \/ StartInferType \/ StartCheck \/ Analyse

Spec == Init /\ [][Next]_vars

\* a started call runs to completion: the engine is synchronous
FairSpec == Spec /\ WF_vars(Analyse)

(***************************************************************************)
(* isAssignable on its own: two type descriptions, one call.               *)
(***************************************************************************)
AssignInit ==
    /\ TreeInit
    /\ \/ typeA \in FlatTypes /\ typeB \in FlatTypes
       \/ typeA \in NestedTypes /\ typeB \in NestedTypes
    /\ assignable = FALSE
    /\ applied = FALSE
    /\ ScopeIdle

\* one call isAssignable(typeA, typeB)
CallIsAssignable ==
    /\ ~applied
    /\ assignable' = isAssignable(typeA, typeB)
    /\ applied' = TRUE
    /\ UNCHANGED <<typeA, typeB, treeVars, scopeVars>>

AssignNext == CallIsAssignable

SpecAssign == AssignInit /\ [][AssignNext]_vars

(***************************************************************************)
(* One binary expression over two operands, every operator of the grammar: *)
(* `left operator right`, or `left operator` where the parser recovered.   *)
(***************************************************************************)
GrammarBinaryOperators ==
    {"or", "and", "=", "!=", "<>", ">", "<", ">=", "<=", "+", "-", "*", "/", "div",
     "mod"}

\* the operators of the BinaryExpression nodes handed to inferType: those of
\* the grammar and `^`, which the arithmetic list of the engine names
InferredBinaryOperators == GrammarBinaryOperators \cup {"^"}

\* the bare references of the operands: declared variables, the types R and U,
\* self, an unknown name, and "" for a reference the parser left without an
\* element
OperandRefTexts ==
    {"x", "b", "s", "q", "d", "t", "dt", "arr", "r", "bad", "R", "U", "self", "nope",
     ""}

Operands ==
    {Node([kind |-> kind]) : kind \in LiteralKinds}
    \cup {Node([kind |-> "MemberCall", hasElement |-> refText # "",
                refText |-> refText]) : refText \in OperandRefTexts}

BinaryOver(left, operator, right) ==
    <<[left EXCEPT !.container = PreludeSize + 3],
      [right EXCEPT !.container = PreludeSize + 3],
      Node([kind |-> "BinaryExpression", operator |-> operator,
            left |-> PreludeSize + 1, right |-> PreludeSize + 2])>>

BinaryMissingRight(left, operator) ==
    <<[left EXCEPT !.container = PreludeSize + 2],
      Node([kind |-> "BinaryExpression", operator |-> operator,
            left |-> PreludeSize + 1])>>

BinaryInit ==
    /\ \E left \in Operands, operator \in InferredBinaryOperators :
          \/ \E right \in Operands : tree = BinaryOver(left, operator, right)
          \/ tree = BinaryMissingRight(left, operator)
    /\ cache = NewMap
    /\ stack = <<>>
    /\ ret = NoType
    /\ result = NoType
    /\ diagnostics = <<>>
    /\ raised = FALSE
    /\ phase = "build"
    /\ call = NoCall
    /\ first = NoCall
    /\ typeA = NoType /\ typeB = NoType /\ assignable = FALSE /\ applied = FALSE
    /\ ScopeIdle

\* the document is parsed: only the callers and the engine move
BinaryNext == StartInferType \/ StartCheck \/ Analyse

SpecBinary == BinaryInit /\ [][BinaryNext]_vars

(***************************************************************************)
(* One unary expression, member call or feature call over primary          *)
(* expressions: `operator value`, `receiver.element`, `receiver.element(   *)
(* arguments)`, `receiver(arguments)`, `element(arguments)`.               *)
(***************************************************************************)
GrammarUnaryOperators == {"not", "-", "+"}

\* the id of the i-th child of a tree of depth one
ChildId(i) == PreludeSize + i

\* the tree of depth one with `children` under `parent`
Under(children, parent) ==
    [i \in 1..Len(children) |->
        [children[i] EXCEPT !.container = ChildId(Len(children) + 1)]]
    \o <<parent>>

\* a node of a kind the grammar does not have: the receiver the array
\* indexing test builds by hand
MockReceiver == Node([kind |-> "array"])

\* the receivers also include the type name UR and the variables ur and ar
ReceiverRefTexts == {"UR", "ur", "ar"}

Receivers ==
    Operands \cup {MockReceiver}
    \cup {Node([kind |-> "MemberCall", hasElement |-> TRUE, refText |-> refText]) :
              refText \in ReceiverRefTexts}

\* the names read after the dot; "" where there is none
PropertyNames == {"length", "a", "zz", ""}

\* the argument expressions: 5, 'a', x and an unresolved reference
Arguments ==
    {Node([kind |-> "NumberLiteral"]), Node([kind |-> "StringLiteral"])}
    \cup {Node([kind |-> "MemberCall", hasElement |-> TRUE, refText |-> refText]) :
              refText \in {"x", "nope"}}

\* the argument lists: one argument more than MaxArgs, so that a call with
\* too many arguments is among them
ArgumentLists == UNION {[1..k -> Arguments] : k \in 0..MaxArgs + 1}

UnaryOver(operator, value) ==
    Under(<<value>>, Node([kind |-> "UnaryExpression", operator |-> operator,
                           value |-> ChildId(1)]))

UnaryMissingValue(operator) ==
    <<Node([kind |-> "UnaryExpression", operator |-> operator])>>

MemberCallOver(receiver, refText, explicit, arguments) ==
    Under(<<receiver>> \o arguments,
          Node([kind |-> "MemberCall", previous |-> ChildId(1),
                hasElement |-> refText # "", refText |-> refText,
                explicitOperationCall |-> explicit,
                arguments |-> [i \in 1..Len(arguments) |-> ChildId(i + 1)]]))

FeatureCallOver(refText, explicit, arguments) ==
    Under(arguments,
          Node([kind |-> "MemberCall", hasElement |-> refText # "",
                refText |-> refText, explicitOperationCall |-> explicit,
                arguments |-> [i \in 1..Len(arguments) |-> ChildId(i)]]))

CallInit ==
    /\ \/ \E operator \in GrammarUnaryOperators :
             \/ \E value \in Operands : tree = UnaryOver(operator, value)
             \/ tree = UnaryMissingValue(operator)
       \/ \E receiver \in Receivers, refText \in PropertyNames, explicit \in BOOLEAN,
                arguments \in ArgumentLists :
             /\ refText # "" \/ explicit
             /\ arguments # <<>> => explicit
             /\ tree = MemberCallOver(receiver, refText, explicit, arguments)
       \/ \E refText \in OperandRefTexts, explicit \in BOOLEAN,
                arguments \in ArgumentLists :
             /\ arguments # <<>> => explicit
             /\ tree = FeatureCallOver(refText, explicit, arguments)
    /\ cache = NewMap
    /\ stack = <<>>
    /\ ret = NoType
    /\ result = NoType
    /\ diagnostics = <<>>
    /\ raised = FALSE
    /\ phase = "build"
    /\ call = NoCall
    /\ first = NoCall
    /\ typeA = NoType /\ typeB = NoType /\ assignable = FALSE /\ applied = FALSE
    /\ ScopeIdle

\* the types a caller stores for a receiver before it calls inferType
SeedTypes ==
    {createArrayTypeDescription(createNumberTypeDescription(None, None, None), 10, None),
     createArrayTypeDescription(createStringTypeDescription(None, None), MaxBound, 1),
     createRecordTypeDescription(
         [n \in {"a"} |-> createStringTypeDescription(None, None)]),
     createNumberTypeDescription(None, None, None),
     createUserTypeDescription(createRecordTypeDescription(
         [n \in {"a"} |-> createStringTypeDescription(None, None)])),
     createUserTypeDescription(createNumberTypeDescription(None, None, None))}

\* the caller of the array indexing test: a new memo, the receiver's type
\* stored in it, then inferType(call, memo)
StartInferTypeSeeded ==
    /\ phase = "build" /\ stack = <<>>
    /\ \E node \in PreludeSize + 1..Len(nodes), seed \in SeedTypes :
          /\ nodes[node].kind = "MemberCall" /\ nodes[node].previous # None
          /\ cache' = [i \in {nodes[node].previous} |-> seed]
          /\ stack' = <<Frame("inferType", node, "start", NoType)>>
          /\ call' = [fn |-> "inferType", node |-> node, memo |-> "seeded",
                       seed |-> seed]
    /\ phase' = "run"
    /\ diagnostics' = <<>>
    /\ raised' = FALSE
    /\ UNCHANGED <<tree, ret, result, first, otherVars>>

CallNext == StartInferType \/ StartInferTypeSeeded \/ StartCheck \/ Analyse

SpecCall == CallInit /\ [][CallNext]_vars

(***************************************************************************)
(* The validator and the engine on the same expression: a check of a       *)
(* binary or unary expression over primary expressions, then inferType of  *)
(* the checked expression with a new memo.                                 *)
(***************************************************************************)
AgreeInit ==
    /\ \/ \E left \in Operands, operator \in GrammarBinaryOperators :
             \/ \E right \in Operands : tree = BinaryOver(left, operator, right)
             \/ tree = BinaryMissingRight(left, operator)
       \/ \E operator \in GrammarUnaryOperators :
             \/ \E value \in Operands : tree = UnaryOver(operator, value)
             \/ tree = UnaryMissingValue(operator)
    /\ cache = NewMap
    /\ stack = <<>>
    /\ ret = NoType
    /\ result = NoType
    /\ diagnostics = <<>>
    /\ raised = FALSE
    /\ phase = "build"
    /\ call = NoCall
    /\ first = NoCall
    /\ typeA = NoType /\ typeB = NoType /\ assignable = FALSE /\ applied = FALSE
    /\ ScopeIdle

\* inferType(expression, new Map()) of the expression a check has looked at
StartInferTypeAfterCheck ==
    /\ phase = "idle" /\ stack = <<>>
    /\ first.fn \in {"checkBinaryExpression", "checkUnaryExpression"}
    /\ cache' = NewMap
    /\ stack' = <<Frame("inferType", first.node, "start", NoType)>>
    /\ call' = [fn |-> "inferType", node |-> first.node, memo |-> "new"]
    /\ phase' = "rerun"
    /\ diagnostics' = <<>>
    /\ raised' = FALSE
    /\ UNCHANGED <<tree, ret, result, first, otherVars>>

AgreeNext == StartCheck \/ StartInferTypeAfterCheck \/ Analyse

SpecAgree == AgreeInit /\ [][AgreeNext]_vars

(***************************************************************************)
(* One memo shared by several callers: inferType(n, new Map()), then a new *)
(* memo filled by inferType calls on other nodes of the tree, in any       *)
(* order, then inferType(n, memo) on the filled memo.                      *)
(***************************************************************************)
\* inferType(node, memo) for another node: on a new memo the first time, on
\* the same memo after that
StartFill ==
    /\ phase \in {"idle", "filled"} /\ stack = <<>>
    /\ first.fn = "inferType"
    /\ \E node \in PreludeSize + 1..Len(nodes) :
          /\ node # first.node
          /\ phase = "filled" => node \notin DOMAIN cache
          /\ stack' = <<Frame("inferType", node, "start", NoType)>>
          /\ call' = [fn |-> "inferType", node |-> node,
                       memo |-> IF phase = "idle" THEN "new" ELSE "kept"]
    /\ cache' = IF phase = "idle" THEN NewMap ELSE cache
    /\ phase' = "fill"
    /\ diagnostics' = <<>>
    /\ raised' = FALSE
    /\ UNCHANGED <<tree, ret, result, first, otherVars>>

\* a call that fills the memo is over
FinishFill ==
    /\ phase = "fill"
    /\ stack = <<>> /\ ret # NoType
    /\ result' = ret
    /\ ret' = NoType
    /\ phase' = "filled"
    /\ UNCHANGED <<tree, cache, stack, diagnostics, raised, call, first, otherVars>>

\* inferType(n, memo) of the node of the first call, on the filled memo
StartInferTypeFilled ==
    /\ phase = "filled" /\ stack = <<>>
    /\ stack' = <<Frame("inferType", first.node, "start", NoType)>>
    /\ call' = [fn |-> "inferType", node |-> first.node, memo |-> "filled"]
    /\ phase' = "rerun"
    /\ diagnostics' = <<>>
    /\ raised' = FALSE
    /\ UNCHANGED <<tree, cache, ret, result, first, otherVars>>

MemoNext ==
    \/ Parse
    \/ phase = "build" /\ StartInferType
    \/ phase = "build" /\ StartCheck
    \/ StartFill
    \/ FinishFill
    \/ StartInferTypeFilled
    \/ Analyse

SpecMemo == Init /\ [][MemoNext]_vars

(***************************************************************************)
(* The scope provider (AtlantisVipScopeProvider).  A node of `document` is *)
(* a record of the properties its grammar rule gives it; reading any other *)
(* property gives undefined, and calling a method on undefined throws.     *)
(***************************************************************************)
\* node[property] is not undefined
Has(node, property) == property \in DOMAIN document[node]

Get(node, property) == document[node][property]

\* new MapScope(elements)
MapScope(elements) == [raised |-> FALSE, elements |-> elements]

\* a TypeError leaves getScope
ScopeRaised == [raised |-> TRUE, elements |-> <<>>]

\* Map.set(key, value)
MapSet(map, key, value) ==
    [k \in DOMAIN map \cup {key} |-> IF k = key THEN value ELSE map[k]]

\* astNodeDescriptionProvider.createDescription(node, name)
createDescription(node, name) == [node |-> node, name |-> name]

RECURSIVE getContainerOfType(_, _)

\* AstUtils.getContainerOfType: the node itself or the nearest container of the kind
getContainerOfType(node, kind) ==
    IF node = None THEN None
    ELSE IF Get(node, "kind") = kind THEN node
    ELSE getContainerOfType(Get(node, "container"), kind)

RECURSIVE NamesLoop(_, _, _)

\* varsDecl.names.forEach(variable => variables.set(variable.name, description))
NamesLoop(names, i, variables) ==
    IF i > Len(names) THEN variables
    ELSE NamesLoop(names, i + 1,
                   MapSet(variables, Get(names[i], "name"),
                          createDescription(names[i], Get(names[i], "name"))))

RECURSIVE VarsLoop(_, _, _)

\* view.vars.forEach(varsDecl => ...)
VarsLoop(viewVars, i, variables) ==
    IF i > Len(viewVars) THEN MapScope(variables)
    ELSE IF ~Has(viewVars[i], "names") THEN ScopeRaised
    ELSE VarsLoop(viewVars, i + 1, NamesLoop(Get(viewVars[i], "names"), 1, variables))

RECURSIVE NamedFieldsLoop(_, _, _)

\* view.fields?.forEach(field => { if (field.$type === 'NamedField') ... })
NamedFieldsLoop(fields, i, variables) ==
    IF i > Len(fields) THEN variables
    ELSE NamedFieldsLoop(fields, i + 1,
             IF Get(fields[i], "kind") = "NamedField"
             THEN MapSet(variables, Get(fields[i], "name"),
                         createDescription(fields[i], Get(fields[i], "name")))
             ELSE variables)

RECURSIVE VariableViewsLoop(_, _, _)

\* interface_.views.forEach(view => ...) of getVariableScope
VariableViewsLoop(views, i, variables) ==
    IF i > Len(views) THEN MapScope(variables)
    ELSE IF ~Has(views[i], "vars") THEN ScopeRaised
    ELSE LET afterVars == VarsLoop(Get(views[i], "vars"), 1, variables) IN
         IF afterVars.raised THEN ScopeRaised
         ELSE VariableViewsLoop(views, i + 1,
                  IF Has(views[i], "fields")
                  THEN NamedFieldsLoop(Get(views[i], "fields"), 1, afterVars.elements)
                  ELSE afterVars.elements)

getVariableScope(node) ==
    LET interface_ == getContainerOfType(node, "Interface") IN
    IF interface_ = None THEN ScopeRaised
    ELSE IF ~Has(interface_, "views") THEN ScopeRaised
    ELSE VariableViewsLoop(Get(interface_, "views"), 1, <<>>)

RECURSIVE ViewsLoop(_, _, _)

\* interface_.views.forEach(view => ...) of getViewScope
ViewsLoop(interfaceViews, i, views) ==
    IF i > Len(interfaceViews) THEN views
    ELSE ViewsLoop(interfaceViews, i + 1,
             IF /\ Has(interfaceViews[i], "name") /\ Get(interfaceViews[i], "name") # ""
                /\ Has(interfaceViews[i], "document")
             THEN MapSet(views, Get(interfaceViews[i], "name"),
                         createDescription(interfaceViews[i],
                                           Get(interfaceViews[i], "name")))
             ELSE views)

getViewScope(node) ==
    LET interface_ == getContainerOfType(node, "Interface") IN
    IF interface_ = None THEN MapScope(<<>>)
    ELSE IF ~Has(interface_, "views") THEN ScopeRaised
    ELSE MapScope(ViewsLoop(Get(interface_, "views"), 1, <<>>))

RECURSIVE FieldsLoop(_, _, _)

\* view.fields?.forEach(field => ...) of getFieldScope
FieldsLoop(viewFields, i, fields) ==
    IF i > Len(viewFields) THEN fields
    ELSE FieldsLoop(viewFields, i + 1,
             IF /\ Get(viewFields[i], "kind") = "NamedField"
                /\ Has(viewFields[i], "document")
             THEN MapSet(fields, Get(viewFields[i], "name"),
                         createDescription(viewFields[i], Get(viewFields[i], "name")))
             ELSE fields)

getFieldScope(node) ==
    LET view == getContainerOfType(node, "View") IN
    IF view = None \/ ~Has(view, "fields") THEN MapScope(<<>>)
    ELSE MapScope(FieldsLoop(Get(view, "fields"), 1, <<>>))

getScope(info) ==
    IF info.property = "ref" THEN getVariableScope(info.container)
    ELSE IF info.property = "View" THEN getViewScope(info.container)
    ELSE IF info.property = "Field" THEN getFieldScope(info.container)
    ELSE MapScope(<<>>)

(***************************************************************************)
(* The documents of the scope queries: the interfaces I (views V and W)    *)
(* and J (view Z), with up to one variable of I, of V and of the Model,    *)
(* one named field in each view and one type of the Model.                 *)
(***************************************************************************)
ScopeNames == {"x", "y"}

\* "" for a declaration the document does not have
OptionalNames == ScopeNames \cup {""}

Listed(name, node) == IF name = "" THEN <<>> ELSE <<node>>

\* interfaceVar, viewVar, modelVar: the variables of I, of V and of the Model;
\* fieldV, fieldW, fieldZ: the named fields of the three views; modelType: the
\* type of the Model.  A declaration left out is not listed by its parent.
ScopeDocument(interfaceVar, viewVar, modelVar, fieldV, fieldW, fieldZ, modelType) == <<
    [kind |-> "Model", container |-> None, interfaces |-> <<2, 5>>,
     types |-> Listed(modelType, 26),
     statements |-> Listed(modelVar, 23) \o <<21>>],  \* 1
    [kind |-> "Interface", container |-> 1, name |-> "I", views |-> <<3, 4>>,
     types |-> <<>>, declarations |-> Listed(interfaceVar, 7)],  \* 2
    [kind |-> "View", container |-> 2, name |-> "V",
     declarations |-> Listed(viewVar, 10),
     fields |-> <<13>> \o Listed(fieldV, 15)],  \* 3
    [kind |-> "View", container |-> 2, name |-> "W", declarations |-> <<>>,
     fields |-> Listed(fieldW, 17)],  \* 4
    [kind |-> "Interface", container |-> 1, name |-> "J", views |-> <<6>>,
     types |-> <<>>, declarations |-> <<>>],  \* 5
    [kind |-> "View", container |-> 5, name |-> "Z", declarations |-> <<>>,
     fields |-> Listed(fieldZ, 19)],  \* 6
    [kind |-> "VarDeclaration", container |-> 2, varsOfTypes |-> <<8>>],  \* 7
    [kind |-> "VarsOfType", container |-> 7, vars |-> <<9>>, declType |-> 27],  \* 8
    [kind |-> "Variable", container |-> 8, name |-> interfaceVar],  \* 9
    [kind |-> "VarDeclaration", container |-> 3, varsOfTypes |-> <<11>>],  \* 10
    [kind |-> "VarsOfType", container |-> 10, vars |-> <<12>>, declType |-> 28],  \* 11
    [kind |-> "Variable", container |-> 11, name |-> viewVar],  \* 12
    [kind |-> "UnnamedViewField", container |-> 3, expression |-> 14],  \* 13
    [kind |-> "MemberCall", container |-> 13, refText |-> "x"],  \* 14
    [kind |-> "NamedViewField", container |-> 3, name |-> fieldV,
     expression |-> 16],  \* 15
    [kind |-> "NumberLiteral", container |-> 15],  \* 16
    [kind |-> "NamedViewField", container |-> 4, name |-> fieldW,
     expression |-> 18],  \* 17
    [kind |-> "NumberLiteral", container |-> 17],  \* 18
    [kind |-> "NamedViewField", container |-> 6, name |-> fieldZ,
     expression |-> 20],  \* 19
    [kind |-> "NumberLiteral", container |-> 19],  \* 20
    [kind |-> "ExpressionStatement", container |-> 1, expression |-> 22],  \* 21
    [kind |-> "MemberCall", container |-> 21, refText |-> "x"],  \* 22
    [kind |-> "VarDeclaration", container |-> 1, varsOfTypes |-> <<24>>],  \* 23
    [kind |-> "VarsOfType", container |-> 23, vars |-> <<25>>, declType |-> 29],  \* 24
    [kind |-> "Variable", container |-> 24, name |-> modelVar],  \* 25
    [kind |-> "UserType", container |-> 1, name |-> modelType, declType |-> 30],  \* 26
    [kind |-> "IntType", container |-> 8],  \* 27
    [kind |-> "TypeReference", container |-> 11, reference |-> "x"],  \* 28
    [kind |-> "TypeReference", container |-> 24, reference |-> "x"],  \* 29
    [kind |-> "IntType", container |-> 26]  \* 30
>>

\* the reference sites of a document with the property that holds the
\* reference: MemberCall.element in V and in a statement of the Model,
\* TypeReference.reference in the declarations of V and of the Model
ReferenceSites(viewVar, modelVar) ==
    {[container |-> 14, property |-> "element"],
     [container |-> 22, property |-> "element"]}
    \cup (IF viewVar = "" THEN {} ELSE {[container |-> 28, property |-> "reference"]})
    \cup (IF modelVar = "" THEN {} ELSE {[container |-> 29, property |-> "reference"]})

ScopeInit ==
    /\ TreeInit
    /\ typeA = NoType /\ typeB = NoType /\ assignable = FALSE /\ applied = FALSE
    /\ \E interfaceVar \in OptionalNames, viewVar \in OptionalNames,
          modelVar \in OptionalNames, fieldV \in OptionalNames,
          fieldW \in OptionalNames, fieldZ \in OptionalNames,
          modelType \in OptionalNames :
          /\ document = ScopeDocument(interfaceVar, viewVar, modelVar, fieldV,
                                      fieldW, fieldZ, modelType)
          /\ context \in ReferenceSites(viewVar, modelVar)
    /\ scope = NoScope
    /\ resolved = FALSE

\* the linker asks for the scope of the reference
GetScope ==
    /\ ~resolved
    /\ scope' = getScope(context)
    /\ resolved' = TRUE
    /\ UNCHANGED <<document, context, treeVars, assignVars>>

ScopeNext == GetScope

SpecScope == ScopeInit /\ [][ScopeNext]_vars

(***************************************************************************)
(* Claims about the scope provider, checked under SpecScope.               *)
(***************************************************************************)
RECURSIVE Flatten(_)

Flatten(lists) ==
    IF Len(lists) = 0 THEN <<>> ELSE Head(lists) \o Flatten(Tail(lists))

\* the nodes with their names, as the table holds them
Described(elements) ==
    [i \in 1..Len(elements) |->
        createDescription(elements[i], Get(elements[i], "name"))]

\* the variables of all VarsOfType groups of the declarations in `groups`
VariablesOf(groups) ==
    Flatten([d \in 1..Len(groups) |->
        Flatten([g \in 1..Len(Get(groups[d], "varsOfTypes")) |->
            Get(Get(groups[d], "varsOfTypes")[g], "vars")])])

DeclaredIn(owner) ==
    IF owner = None THEN <<>> ELSE VariablesOf(Get(owner, "declarations"))

ModelVariables ==
    VariablesOf(SelectSeq(Get(1, "statements"),
                          LAMBDA s : Get(s, "kind") = "VarDeclaration"))

\* every NamedViewField of every View of every Interface of the Model
ModelNamedViewFields ==
    Flatten([i \in 1..Len(Get(1, "interfaces")) |->
        Flatten([v \in 1..Len(Get(Get(1, "interfaces")[i], "views")) |->
            SelectSeq(Get(Get(Get(1, "interfaces")[i], "views")[v], "fields"),
                      LAMBDA f : Get(f, "kind") = "NamedViewField")])])

\* `self`: the nearest enclosing View, else the nearest enclosing Interface
SelfOf(site) ==
    LET view == getContainerOfType(site, "View")
        interface_ == getContainerOfType(site, "Interface") IN
    IF view # None THEN <<createDescription(view, "self")>>
    ELSE IF interface_ # None THEN <<createDescription(interface_, "self")>>
    ELSE <<>>

\* Model-level types, the types of every Interface, the enclosing Interface's types
VisibleTypes(site) ==
    LET interface_ == getContainerOfType(site, "Interface") IN
    Get(1, "types")
    \o Flatten([i \in 1..Len(Get(1, "interfaces")) |->
                   Get(Get(1, "interfaces")[i], "types")])
    \o (IF interface_ = None THEN <<>> ELSE Get(interface_, "types"))

\* the six steps of the variable/value table, in order
VisibleInOrder(site) ==
    Described(DeclaredIn(getContainerOfType(site, "Interface")))
    \o Described(DeclaredIn(getContainerOfType(site, "View")))
    \o Described(ModelVariables)
    \o Described(ModelNamedViewFields)
    \o SelfOf(site)
    \o Described(VisibleTypes(site))

RECURSIVE InsertAll(_, _, _)

\* later insertions overwrite earlier ones of the same name
InsertAll(descriptions, i, table) ==
    IF i > Len(descriptions) THEN table
    ELSE InsertAll(descriptions, i + 1,
                   MapSet(table, descriptions[i].name, descriptions[i]))

\* the names the table of a resolved query holds
VisibleNames == IF scope.raised THEN {} ELSE DOMAIN scope.elements

\* C20: for a variable/value reference (the `element` of a MemberCall) the
\* scope provider returns, without failing, the table that results from
\* inserting in order the enclosing Interface's variables, the enclosing
\* View's variables, the Model's variables, every NamedViewField of the
\* Model, `self` and the visible Type names, later ones overwriting earlier
\* ones of the same name.
C20_VisibleNames ==
    (resolved /\ context.property = "element") =>
        /\ ~scope.raised
        /\ VisibleNames = DOMAIN InsertAll(VisibleInOrder(context.container), 1, <<>>)
        /\ \A name \in VisibleNames :
               scope.elements[name] =
                   InsertAll(VisibleInOrder(context.container), 1, <<>>)[name]

\* C21: at every variable/value reference site of a Model the scope table
\* holds every NamedViewField of every View of every Interface of the Model
\* under its name, so a field of a sibling view or of a view of another
\* interface resolves by name.
C21_CrossViewFields ==
    (resolved /\ context.property = "element") =>
        \A i \in 1..Len(ModelNamedViewFields) :
            LET name == Get(ModelNamedViewFields[i], "name") IN
            /\ name \in VisibleNames
            /\ Get(scope.elements[name].node, "kind") = "NamedViewField"

\* C22: for a type reference (the `reference` of a TypeReference) the scope
\* table holds exactly the Model's types, the types of every Interface and the
\* enclosing Interface's types, and no Variable, NamedViewField or `self`.
C22_TypeReferenceScope ==
    (resolved /\ context.property = "reference") =>
        /\ ~scope.raised
        /\ VisibleNames = {Get(VisibleTypes(context.container)[i], "name") :
                              i \in 1..Len(VisibleTypes(context.container))}
        /\ \A name \in VisibleNames :
               Get(scope.elements[name].node, "kind") = "UserType"

(***************************************************************************)
(* Claims about isAssignable, checked under SpecAssign.                    *)
(***************************************************************************)
NumberT == createNumberTypeDescription(None, None, None)

StringT == createStringTypeDescription(None, None)

IsErrorOrUnknown(t) == isErrorType(t) \/ isUnknownType(t)

\* C4: isAssignable is fail-open: when typeA or typeB is `error` or `unknown`
\* the call returns true.
C4_FailOpen ==
    (applied /\ (IsErrorOrUnknown(typeA) \/ IsErrorOrUnknown(typeB))) => assignable

\* C5: isAssignable is reflexive on every type that is not `error` or
\* `unknown`, whatever its nesting.
C5_Reflexive ==
    (applied /\ typeA = typeB /\ ~IsErrorOrUnknown(typeA)) => assignable

C5_Witness ==
    /\ applied /\ assignable /\ typeA = typeB
    /\ isArrayTypeDesc(typeA) /\ isRecordTypeDesc(typeA.elementType)
    /\ DOMAIN typeA.elementType.fields = FieldNames

RecordA == createRecordTypeDescription([n \in {"a"} |-> NumberT])

RecordAB ==
    createRecordTypeDescription([n \in {"a", "b"} |-> IF n = "a" THEN NumberT ELSE StringT])

\* C6: for two records the call returns true exactly when every field of the
\* target is a field of the source with an assignable type; the source may
\* carry extra fields ({a,b} is assignable to {a}, {a} is not to {a,b}).
C6_RecordWidth ==
    (applied /\ isRecordTypeDesc(typeA) /\ isRecordTypeDesc(typeB)) =>
        /\ assignable =
              (\A n \in DOMAIN typeA.fields :
                  /\ n \in DOMAIN typeB.fields
                  /\ isAssignable(typeA.fields[n], typeB.fields[n]))
        /\ (typeA = RecordA /\ typeB = RecordAB) => assignable
        /\ (typeA = RecordAB /\ typeB = RecordA) => ~assignable

C6_Witness ==
    applied /\ typeA = RecordA /\ typeB = RecordAB /\ assignable

\* C7: for two arrays the call returns what it returns for the element
\* types, whatever the four bounds are.
C7_ArrayElements ==
    (applied /\ isArrayTypeDesc(typeA) /\ isArrayTypeDesc(typeB)) =>
        /\ assignable = isAssignable(typeA.elementType, typeB.elementType)
        /\ (isNumberType(typeA.elementType) /\ isNumberType(typeB.elementType))
              => assignable
        /\ (isNumberType(typeA.elementType) /\ isStringType(typeB.elementType))
              => ~assignable

C7_Witness ==
    /\ applied /\ assignable
    /\ isArrayTypeDesc(typeA) /\ isArrayTypeDesc(typeB)
    /\ isNumberType(typeA.elementType) /\ isNumberType(typeB.elementType)
    /\ typeA.rightBound # typeB.rightBound /\ typeA.leftBound # typeB.leftBound

RECURSIVE Clean(_)

\* no `error` and no `unknown` at any depth
Clean(t) ==
    CASE t.type \in {"error", "unknown"} -> FALSE
      [] t.type = "array" -> Clean(t.elementType)
      [] t.type = "user" -> Clean(t.baseType)
      [] t.type = "record" -> \A n \in DOMAIN t.fields : Clean(t.fields[n])
      [] OTHER -> TRUE

RECURSIVE UserInside(_)

\* a user type at some depth
UserInside(t) ==
    CASE t.type = "user" -> TRUE
      [] t.type = "array" -> UserInside(t.elementType)
      [] t.type = "record" -> \E n \in DOMAIN t.fields : UserInside(t.fields[n])
      [] OTHER -> FALSE

RECURSIVE HasRecord(_)

\* a record at some depth
HasRecord(t) ==
    CASE t.type = "record" -> TRUE
      [] t.type = "array" -> HasRecord(t.elementType)
      [] t.type = "user" -> HasRecord(t.baseType)
      [] OTHER -> FALSE

\* C29: on types without `error` and `unknown` at any depth isAssignable is
\* transitive (isAssignable(A, B) and isAssignable(B, C) give
\* isAssignable(A, C)), and on such types without a record it is symmetric.
C29_TransitiveSymmetric ==
    (applied /\ Clean(typeA) /\ Clean(typeB)) =>
        /\ assignable =>
              \A typeC \in FlatTypes \cup NestedTypes :
                  (Clean(typeC) /\ isAssignable(typeB, typeC))
                      => isAssignable(typeA, typeC)
        /\ (~HasRecord(typeA) /\ ~HasRecord(typeB))
              => (assignable <=> isAssignable(typeB, typeA))

\* {a: number} takes {a: number, b: string}, and not the other way round
C29_Witness ==
    /\ applied /\ assignable
    /\ Clean(typeA) /\ Clean(typeB)
    /\ isRecordTypeDesc(typeA) /\ isRecordTypeDesc(typeB)
    /\ DOMAIN typeA.fields = {"a"} /\ DOMAIN typeB.fields = {"a", "b"}
    /\ ~isAssignable(typeB, typeA)
    /\ \E typeC \in FlatTypes :
          /\ Clean(typeC) /\ typeC # typeB
          /\ isAssignable(typeB, typeC) /\ isAssignable(typeA, typeC)

(***************************************************************************)
(* Claims about inferType and the validator, checked under Spec/FairSpec.  *)
(***************************************************************************)
Running == phase \in {"run", "rerun"}

Finished == phase \in {"idle", "end"}

RecursiveDefinition(node) == createErrorType("Recursive definition", node)

\* an activation of inferType(node) below the top of the stack
InProgress(node) ==
    \E i \in 1..Len(stack) - 1 : stack[i].fn = "inferType" /\ stack[i].node = node

\* inferType is entered for a node whose inference is still in progress
ReentrantCall ==
    /\ stack # <<>> /\ ret = NoType
    /\ Top.fn = "inferType" /\ Top.pc = "start"
    /\ Top.node # None /\ InProgress(Top.node)

\* C1: every started call of inferType or of a check comes to its end; a
\* re-entrant call on a node in progress returns the provisional error
\* 'Recursive definition' at once, and the stack is never deeper than the
\* parsed tree (plus the check's frame and the re-entrant one).
C1_Terminates ==
    /\ [][ReentrantCall =>
             /\ ret' = RecursiveDefinition(Top.node)
             /\ stack' = Pop]_vars
    /\ [](Len(stack) <= Len(tree) + 2)
    /\ (Running ~> Finished)

\* the field `f` whose expression is the bare reference `f` has been inferred
C1_Witness ==
    /\ Finished /\ call.fn = "inferType" /\ call.node # None
    /\ nodes[call.node].kind = "NamedViewField"
    /\ nodes[nodes[call.node].expression].refText = nodes[call.node].name
    /\ result = RecursiveDefinition(call.node)

TypeTags ==
    {"error", "boolean", "number", "string", "date", "time", "datetime", "array",
     "record", "user", "unknown"}

RECURSIVE IsTypeDescription(_)

\* a TypeDescription value: one of the $type tags, its parts TypeDescriptions
IsTypeDescription(t) ==
    /\ t.type \in TypeTags
    /\ isArrayTypeDesc(t) => IsTypeDescription(t.elementType)
    /\ isUserTypeDesc(t) => IsTypeDescription(t.baseType)
    /\ isRecordTypeDesc(t) => \A n \in DOMAIN t.fields : IsTypeDescription(t.fields[n])

\* a top-level call inferType(node, memo) is over
InferTypeOver == Finished /\ call.fn = "inferType"

\* C2: no call raises; whatever inferType returns or memoizes is a
\* TypeDescription, and the five bad inputs (undefined node, MemberCall with
\* no element, Variable outside a VarsOfType, unresolved reference, node of
\* no inferable kind) each give an `error` description.
C2_NeverRaises ==
    /\ ~raised
    /\ ret \notin {NoType, Void} => IsTypeDescription(ret)
    /\ \A n \in DOMAIN cache : IsTypeDescription(cache[n])
    /\ InferTypeOver =>
          /\ IsTypeDescription(result)
          /\ call.node = None =>
                result = createErrorType("Could not infer type for undefined", None)
          /\ call.node # None =>
                LET n == nodes[call.node] IN
                /\ (n.kind = "MemberCall" /\ n.previous = None /\ ~n.hasElement) =>
                      result = createErrorType("Missing element reference", call.node)
                /\ (n.kind = "Variable" /\ ~isVarsOfType(n.container)) =>
                      isErrorType(result)
                /\ (n.kind = "MemberCall" /\ n.previous = None /\ n.hasElement
                        /\ n.refText # "self" /\ ElementRef(n.refText) = None) =>
                      result = createErrorType(
                                   "Unknown reference '" \o n.refText \o "'", call.node)
                /\ n.kind \in {"Model", "VarsOfType", "IntType"} =>
                      result = createErrorType("Could not infer type", call.node)

\* inferType of a MemberCall the parser left without an element has returned
C2_Witness ==
    /\ InferTypeOver /\ call.node # None
    /\ nodes[call.node].kind = "MemberCall"
    /\ nodes[call.node].previous = None /\ ~nodes[call.node].hasElement
    /\ result = createErrorType("Missing element reference", call.node)

\* a validator check is over
CheckOver ==
    Finished /\ call.fn \in {"checkBinaryExpression", "checkMemberCall",
                             "checkUnaryExpression"}

\* the type the finished check's memo holds for a parsed operand
InfersError(operand) ==
    operand # None /\ operand \in DOMAIN cache /\ isErrorType(cache[operand])

\* the checked expression has an operand or a receiver that infers to `error`
ConsumesError ==
    LET n == nodes[call.node] IN
    CASE call.fn = "checkBinaryExpression" -> InfersError(n.left) \/ InfersError(n.right)
      [] call.fn = "checkUnaryExpression" -> InfersError(n.value)
      [] call.fn = "checkMemberCall" -> InfersError(n.previous)

\* C3: a check of a BinaryExpression, UnaryExpression or MemberCall whose
\* operand or receiver infers to `error` accepts no diagnostic of its own.
C3_NoNewDiagnostic == (CheckOver /\ ConsumesError) => diagnostics = <<>>

(***************************************************************************)
(* Claims about binary expressions, checked under SpecBinary.              *)
(***************************************************************************)
\* the type the memo holds for an operand; inferType(undefined) for none
OperandType(operand) ==
    IF operand = None THEN createErrorType("Could not infer type for undefined", None)
    ELSE cache[operand]

\* the BinaryExpression nodes whose inference is over
InferredBinaries ==
    {n \in DOMAIN cache :
        /\ stack = <<>>
        /\ nodes[n].kind = "BinaryExpression"
        /\ nodes[n].left \in DOMAIN cache
        /\ nodes[n].right = None \/ nodes[n].right \in DOMAIN cache}

NumberWithString(n) ==
    LET leftType == OperandType(nodes[n].left)
        rightType == OperandType(nodes[n].right)
    IN \/ isNumberType(leftType) /\ isStringType(rightType)
       \/ isStringType(leftType) /\ isNumberType(rightType)

\* C8: string and number are not assignable to each other, either way,
\* while `+` over a number and a string, in either order, infers `string`.
C8_StricterThanConcat ==
    /\ ~isAssignable(StringT, NumberT)
    /\ ~isAssignable(NumberT, StringT)
    /\ \A n \in InferredBinaries :
          (nodes[n].operator = "+" /\ NumberWithString(n)) =>
              /\ isStringType(cache[n])
              /\ ~isAssignable(OperandType(nodes[n].left), OperandType(nodes[n].right))
              /\ ~isAssignable(OperandType(nodes[n].right), OperandType(nodes[n].left))

\* `1 + s` has been inferred: number on the left, string on the right
C8_Witness ==
    /\ InferTypeOver
    /\ \E n \in InferredBinaries :
          /\ n = call.node /\ nodes[n].operator = "+"
          /\ isNumberType(cache[nodes[n].left])
          /\ isStringType(OperandType(nodes[n].right))
          /\ isStringType(result)

\* C10: a BinaryExpression with an operand that infers to `error` infers to
\* the error 'Error in operand types' on the expression, whatever the operator.
C10_PoisonPropagation ==
    \A n \in InferredBinaries :
        (isErrorType(OperandType(nodes[n].left))
            \/ isErrorType(OperandType(nodes[n].right))) =>
            cache[n] = createErrorType("Error in operand types", n)

\* `x div nope` has been inferred
C10_Witness ==
    /\ InferTypeOver
    /\ \E n \in InferredBinaries :
          /\ n = call.node /\ nodes[n].operator = "div"
          /\ isNumberType(cache[nodes[n].left])
          /\ nodes[n].right # None
          /\ cache[nodes[n].right] =
                createErrorType("Unknown reference 'nope'", nodes[n].right)
          /\ result = createErrorType("Error in operand types", n)

\* the BinaryExpression nodes whose inference is over, both operands typed
\* without error
TypedBinaries ==
    {n \in InferredBinaries :
        /\ ~isErrorType(OperandType(nodes[n].left))
        /\ ~isErrorType(OperandType(nodes[n].right))}

\* the binary expression `leftKind operator rightKind` over two literals
LiteralBinary(n, leftKind, operator, rightKind) ==
    /\ nodes[n].operator = operator
    /\ nodes[nodes[n].left].kind = leftKind
    /\ nodes[n].right # None /\ nodes[nodes[n].right].kind = rightKind

\* C11: for an operator of {+, -, *, /, ^, mod, div} over operands that are
\* not `error`: `+` with a string operand gives `string` when the other
\* operand is string, number or boolean and `error` otherwise; every other
\* case gives `number` when both operands are number and `error` otherwise
\* ('a'+'b' and 'a'+3 are string, 3+true is error).
C11_ArithmeticTyping ==
    \A n \in TypedBinaries :
        LET operator == nodes[n].operator
            l == OperandType(nodes[n].left).type
            r == OperandType(nodes[n].right).type
            concatenable == {"string", "number", "boolean"}
        IN operator \in {"+", "-", "*", "/", "^", "mod", "div"} =>
              /\ IF operator = "+" /\ (l = "string" \/ r = "string")
                 THEN IF \/ l = "string" /\ r \in concatenable
                         \/ r = "string" /\ l \in concatenable
                      THEN cache[n].type = "string"
                      ELSE cache[n].type = "error"
                 ELSE IF l = "number" /\ r = "number"
                      THEN cache[n].type = "number"
                      ELSE cache[n].type = "error"
              /\ LiteralBinary(n, "StringLiteral", "+", "StringLiteral")
                    => cache[n].type = "string"
              /\ LiteralBinary(n, "StringLiteral", "+", "NumberLiteral")
                    => cache[n].type = "string"
              /\ LiteralBinary(n, "NumberLiteral", "+", "BooleanLiteral")
                    => cache[n].type = "error"

\* `'a' + true` has been inferred to `string`
C11_Witness ==
    /\ InferTypeOver
    /\ \E n \in TypedBinaries :
          /\ n = call.node
          /\ LiteralBinary(n, "StringLiteral", "+", "BooleanLiteral")
          /\ isStringType(result)

\* C12: for an operator of {=, !=, <>, >, <, >=, <=} over operands that are
\* not `error` the result is `boolean` exactly when both operands have the
\* same kind among number, string, date, time, datetime, or the operator is
\* `=` and both are boolean; every other pairing gives `error`.
C12_ComparisonTyping ==
    \A n \in TypedBinaries :
        LET operator == nodes[n].operator
            l == OperandType(nodes[n].left).type
            r == OperandType(nodes[n].right).type
            comparable ==
                \/ l = r /\ l \in {"number", "string", "date", "time", "datetime"}
                \/ operator = "=" /\ l = "boolean" /\ r = "boolean"
        IN operator \in {"=", "!=", "<>", ">", "<", ">=", "<="} =>
              /\ cache[n].type = (IF comparable THEN "boolean" ELSE "error")
              /\ (operator \in {"!=", "<>"} /\ l = "boolean" /\ r = "boolean")
                    => cache[n].type = "error"

\* `true <> b` has been inferred to `error`
C12_Witness ==
    /\ InferTypeOver
    /\ \E n \in TypedBinaries :
          /\ n = call.node /\ nodes[n].operator = "<>"
          /\ isBooleanType(cache[nodes[n].left])
          /\ isBooleanType(cache[nodes[n].right])
          /\ result = createErrorType("Incompatible types for comparison", n)

\* the bare references whose inference is over, with or without element
InferredReferences ==
    {n \in DOMAIN cache :
        stack = <<>> /\ nodes[n].kind = "MemberCall" /\ nodes[n].previous = None}

\* the types the variables of the document are declared with, as written
DeclaredAs(name) ==
    CASE name = "x" -> createNumberTypeDescription(None, None, None)
      [] name = "b" -> createBooleanTypeDescription(None)
      [] name = "s" -> createStringTypeDescription(None, 2)
      [] name = "q" -> createNumberTypeDescription(None, 2, 1)
      [] name = "d" -> createDateTypeDescription
      [] name = "t" -> createTimeTypeDescription
      [] name = "dt" -> createDateTimeTypeDescription
      [] name = "arr" -> createArrayTypeDescription(NumberT, 10, 1)

InferredUnaries ==
    {n \in DOMAIN cache :
        /\ stack = <<>>
        /\ nodes[n].kind = "UnaryExpression"
        /\ nodes[n].value = None \/ nodes[n].value \in DOMAIN cache}

\* C13: a UnaryExpression with `-` or `+` over a number, or `not` over a
\* boolean, infers to the operand's type itself; over any other operand that
\* is not `error` it infers to the error naming the required kind (not 5 is
\* error 'Logical not requires boolean type', not true is boolean); an
\* operand's `error` is returned unchanged.
C13_UnaryTyping ==
    \A n \in InferredUnaries :
        LET operator == nodes[n].operator
            valueType == OperandType(nodes[n].value)
            required == IF operator = "not" THEN "boolean" ELSE "number"
            message == CASE operator = "-" -> "Unary minus requires numeric type"
                         [] operator = "+" -> "Unary plus requires numeric type"
                         [] operator = "not" -> "Logical not requires boolean type"
        IN operator \in {"-", "+", "not"} =>
              /\ valueType.type \in {"error", required} => cache[n] = valueType
              /\ valueType.type \notin {"error", required} =>
                    cache[n] = createErrorType(message, n)
              /\ (operator = "not" /\ nodes[n].value # None) =>
                    /\ nodes[nodes[n].value].kind = "NumberLiteral" =>
                          cache[n] = createErrorType(
                                         "Logical not requires boolean type", n)
                    /\ nodes[nodes[n].value].kind = "BooleanLiteral" =>
                          cache[n].type = "boolean"

\* `not nope` has been inferred: the error of the operand, unchanged
C13_Witness ==
    /\ InferTypeOver
    /\ \E n \in InferredUnaries :
          /\ n = call.node /\ nodes[n].operator = "not"
          /\ nodes[n].value # None
          /\ result = createErrorType("Unknown reference 'nope'", nodes[n].value)

\* the MemberCall nodes with a receiver whose inference is over
InferredCalls ==
    {n \in DOMAIN cache :
        /\ stack = <<>>
        /\ nodes[n].kind = "MemberCall"
        /\ nodes[n].previous # None /\ nodes[n].previous \in DOMAIN cache}

NotImplemented(n) ==
    createErrorType("Function call type inference not implemented", n)

\* the first call ran on a memo in which the caller had stored the receiver's type
SeededCall == call.fn = "inferType" /\ call.memo = "seeded"

InferredFeatureCalls ==
    {n \in DOMAIN cache :
        /\ stack = <<>>
        /\ nodes[n].kind = "MemberCall"
        /\ nodes[n].previous = None /\ nodes[n].hasElement}

\* C15: with `arr: array[1..10] of integer`, the feature call `arr(3)`
\* infers to number and `arr(3,4)` to the error 'Function call type inference
\* not implemented'; the member call `arr.length` infers to number.
C15_ScenarioE ==
    /\ \A n \in InferredFeatureCalls :
          (nodes[n].refText = "arr" /\ nodes[n].explicitOperationCall) =>
              /\ ( /\ Len(nodes[n].arguments) = 1
                   /\ nodes[nodes[n].arguments[1]].kind = "NumberLiteral" )
                    => cache[n].type = "number"
              /\ Len(nodes[n].arguments) = 2 => cache[n] = NotImplemented(n)
    /\ \A n \in InferredCalls :
          ( /\ nodes[nodes[n].previous].refText = "arr"
            /\ ~SeededCall
            /\ ~nodes[n].explicitOperationCall /\ nodes[n].refText = "length" )
              => cache[n].type = "number"

\* C16: property access (no explicit call) on a receiver that is not
\* `error`: an array answers `length` with number and any other name with
\* `error`; a record answers a declared field with the field's type and a
\* missing one with `error`; every kind other than array, record and user
\* gives `error`.
C16_PropertyAccess ==
    \A n \in InferredCalls :
        LET receiverType == cache[nodes[n].previous]
            name == nodes[n].refText
        IN ( /\ ~nodes[n].explicitOperationCall /\ nodes[n].hasElement
             /\ receiverType.type # "error" ) =>
              /\ receiverType.type = "array" =>
                    IF name = "length" THEN cache[n].type = "number"
                    ELSE cache[n].type = "error"
              /\ receiverType.type = "record" =>
                    IF name \in DOMAIN receiverType.fields
                    THEN cache[n] = receiverType.fields[name]
                    ELSE cache[n].type = "error"
              /\ receiverType.type \in
                     {"number", "string", "boolean", "date", "time", "datetime",
                      "unknown"} => cache[n].type = "error"

\* `arr.zz` has been inferred to `error`
C16_Witness ==
    /\ InferTypeOver /\ ~SeededCall
    /\ \E n \in InferredCalls :
          /\ n = call.node
          /\ nodes[nodes[n].previous].refText = "arr"
          /\ isArrayTypeDesc(cache[nodes[n].previous])
          /\ result = createErrorType("Property 'zz' not found on array type", n)

\* the type the memo holds for an operand is `unknown`
InfersUnknown(operand) ==
    operand # None /\ operand \in DOMAIN cache /\ isUnknownType(cache[operand])

\* C23: a BinaryExpression, UnaryExpression or MemberCall with a receiver
\* that has an operand or a receiver of type `unknown`, and no operand of
\* type `error`, does not infer to `error`, and its validator check emits no
\* diagnostic.
C23_UnknownCompatible ==
    /\ \A n \in InferredUnaries :
           InfersUnknown(nodes[n].value) => ~isErrorType(cache[n])
    /\ \A n \in InferredCalls :
           InfersUnknown(nodes[n].previous) => ~isErrorType(cache[n])
    /\ \A n \in TypedBinaries :
           (InfersUnknown(nodes[n].left) \/ InfersUnknown(nodes[n].right))
               => ~isErrorType(cache[n])
    /\ (CheckOver /\ call.fn = "checkUnaryExpression"
           /\ InfersUnknown(nodes[call.node].value)) => diagnostics = <<>>

\* the receiver of the call is a reference to the declaration `name`
ReceiverIs(n, name) ==
    /\ nodes[nodes[n].previous].kind = "MemberCall"
    /\ nodes[nodes[n].previous].previous = None
    /\ nodes[nodes[n].previous].refText = name

\* C24: property access on a `user` receiver answers with the named field's
\* type when the base type is a record (error for a missing field) and with
\* `error` when the base type is not a record; and `ur.a`, for ur declared
\* with the UserType UR that aliases the Record R, has the type of R's field
\* a (number).
C24_UserReceiver ==
    \A n \in InferredCalls :
        LET receiverType == cache[nodes[n].previous]
            name == nodes[n].refText
        IN (~nodes[n].explicitOperationCall /\ nodes[n].hasElement) =>
              /\ receiverType.type = "user" =>
                    IF receiverType.baseType.type = "record"
                    THEN IF name \in DOMAIN receiverType.baseType.fields
                         THEN cache[n] = receiverType.baseType.fields[name]
                         ELSE cache[n].type = "error"
                    ELSE cache[n].type = "error"
              /\ (~SeededCall /\ ReceiverIs(n, "ur") /\ name = "a")
                    => cache[n].type = "number"

(***************************************************************************)
(* The claim about the validator and the engine, checked under SpecAgree.  *)
(***************************************************************************)
\* a check of an expression and then inferType of it are both over
CheckedThenInferred ==
    /\ phase = "end" /\ call.fn = "inferType"
    /\ first.fn \in {"checkBinaryExpression", "checkUnaryExpression"}
    /\ first.node = call.node

\* C26: for a BinaryExpression with an operator of the grammar and for a
\* UnaryExpression, the validator check emits a diagnostic exactly when
\* inferType of the expression with a new memo returns `error`: one
\* diagnostic then, none otherwise.
C26_ValidatorAgrees ==
    CheckedThenInferred =>
        /\ Len(first.diagnostics) = (IF isErrorType(result) THEN 1 ELSE 0)
        /\ ~first.raised /\ ~raised

\* `3 + true` has one diagnostic and infers to `error`; so does `not 5`
C26_Witness ==
    /\ CheckedThenInferred
    /\ isErrorType(result) /\ Len(first.diagnostics) = 1
    /\ first.diagnostics[1].node = call.node
    /\ nodes[call.node].kind = "BinaryExpression"
    /\ nodes[call.node].operator = "+"
    /\ nodes[nodes[call.node].left].kind = "NumberLiteral"
    /\ nodes[call.node].right # None
    /\ nodes[nodes[call.node].right].kind = "BooleanLiteral"

(***************************************************************************)
(* The claim about a memo shared by several calls, checked under SpecMemo. *)
(***************************************************************************)
\* an activation of inferType(node) is on the stack
Active(node) ==
    \E i \in 1..Len(stack) : stack[i].fn = "inferType" /\ stack[i].node = node

\* a top-level inferType call has returned: the memo holds what it returned
MemoHoldsResult ==
    (stack = <<>> /\ ret = NoType /\ phase \in {"idle", "filled", "end"}
        /\ call.fn = "inferType" /\ call.node # None)
        => (call.node \in DOMAIN cache /\ cache[call.node] = result)

\* a step on the same memo leaves the entry of every node alone whose
\* inferType call is not running
MemoEntriesKept ==
    (stack # <<>> \/ (stack' # <<>> /\ call'.memo \in {"kept", "filled"})) =>
        \A k \in DOMAIN cache :
            ~Active(k) => (k \in DOMAIN cache' /\ cache'[k] = cache[k])

\* inferType(n, memo) on the filled memo is over
InferredOnFilled == phase = "end" /\ call.fn = "inferType" /\ call.memo = "filled"

OrderIndependent == InferredOnFilled => result.type = first.result.type

\* C27: once inferType(n, memo) has returned, memo[n] is the returned value
\* and no later call on the same memo changes it; and the kind of
\* inferType(n, memo) is the same on an empty memo and on a memo filled
\* beforehand by inferType calls on other nodes of the tree, in any order.
C27_MemoStable ==
    /\ []MemoHoldsResult
    /\ [][MemoEntriesKept]_vars
    /\ []OrderIndependent

\* a node has been inferred on a memo that two calls on other nodes had filled
C27_Witness ==
    /\ InferredOnFilled
    /\ Len(tree) = 3
    /\ \A k \in PreludeSize + 1..Len(nodes) : k \in DOMAIN cache
    /\ result = first.result /\ isErrorType(result)

(***************************************************************************)
(* Claims about repeated calls, checked under Spec.                        *)
(***************************************************************************)
\* inferType(node, new Map()) has returned twice for the same node
InferredTwice ==
    /\ phase = "end"
    /\ first.fn = "inferType" /\ call.fn = "inferType"
    /\ first.node = call.node
    /\ call.memo = "new"

\* a validator check is about to make its first call of inferType
CheckStarted ==
    /\ Len(stack) = 2 /\ ret = NoType
    /\ stack[1].fn # "inferType" /\ stack[1].pc # "right"
    /\ Top.pc = "start"

\* the same validator check has returned twice for the same node
CheckedTwice ==
    /\ phase = "end" /\ CheckOver
    /\ first.fn = call.fn /\ first.node = call.node

\* C19: a check accepts at most one diagnostic; when an operand of the
\* checked BinaryExpression infers to `error` the diagnostic is on the left
\* operand if that one is erroneous, otherwise on the right one, never on
\* the expression; a check starts from an empty memo and the same check run
\* again on the same node accepts the same diagnostics.
C19_OneAnchoredDiagnostic ==
    /\ Len(diagnostics) <= 1
    /\ (CheckOver /\ call.fn = "checkBinaryExpression") =>
          LET n == nodes[call.node]
              leftError == isErrorType(OperandType(n.left))
              rightError == isErrorType(OperandType(n.right))
          IN (leftError \/ rightError) =>
                /\ Len(diagnostics) = 1
                /\ diagnostics[1].node = (IF leftError THEN n.left ELSE n.right)
                /\ diagnostics[1].node # call.node
    /\ CheckStarted => cache = NewMap
    /\ CheckedTwice => diagnostics = first.diagnostics

\* `1 + f` with no `f` declared has been checked twice: one diagnostic, on `f`
C19_Witness ==
    /\ CheckedTwice /\ call.fn = "checkBinaryExpression"
    /\ ~isErrorType(OperandType(nodes[call.node].left))
    /\ nodes[call.node].right # None
    /\ isErrorType(cache[nodes[call.node].right])
    /\ diagnostics =
          <<Diagnostic("Operand has an error type.", nodes[call.node].right)>>

\* C18: a bare reference `self` with a View or an Interface above it infers
\* to `unknown`, whatever the view holds.
C18_SelfIsUnknown ==
    \A n \in DOMAIN cache :
        ( /\ nodes[n].kind = "MemberCall" /\ nodes[n].previous = None
          /\ nodes[n].hasElement /\ nodes[n].refText = "self"
          /\ ViewOrInterfaceAbove(n) # None )
            => cache[n] = createUnknownTypeDescription

\* `not self` as a field of the view V: self has been inferred to unknown
C18_Witness ==
    /\ Finished
    /\ \E n \in DOMAIN cache :
          /\ nodes[n].kind = "MemberCall" /\ nodes[n].refText = "self"
          /\ nodes[n].container # None
          /\ nodes[nodes[n].container].kind = "UnaryExpression"
          /\ ViewOrInterfaceAbove(n) = ViewNode
          /\ cache[n] = createUnknownTypeDescription

\* the array type node the variable `name` is declared with
ArrayTypeOf(name) ==
    LET v == CHOOSE v \in 1..PreludeSize :
                 Prelude[v].kind = "Variable" /\ Prelude[v].name = name
    IN Prelude[Prelude[v].container].declType

ArrayVariables == {"arr", "mat", "ar", "au", "af", "bad"}

\* an array description, written out
Written(elementType, leftBound, rightBound) ==
    [type |-> "array", elementType |-> elementType,
     rightBound |-> rightBound, leftBound |-> leftBound]

\* the array types of the document, as written in its declarations
WrittenArray(name) ==
    CASE name = "arr" -> Written(NumberT, 1, 10)
      [] name = "mat" -> Written(Written(StringT, None, 2), None, 2)
      [] name = "ar" -> Written(createUnknownTypeDescription, 1, 2)
      [] name = "au" -> Written(createUnknownTypeDescription, None, 2)
      [] name = "af" -> Written(createNumberTypeDescription(None, 2, 1), 1, 3)
      [] name = "bad" ->
           Written(createErrorType("Missing array element type", ArrayTypeOf("bad")),
                   None, 2)

\* C25: inferType of an array type node gives an `array` with the node's
\* bounds and, as elementType, the type of the declared element TypeReference
\* (number, a nested array, `unknown` for a named Record or UserType), or
\* `error` when the node has no element TypeReference.
C25_ArrayTypeNode ==
    (InferTypeOver /\ call.node # None /\ call.node <= PreludeSize
        /\ Prelude[call.node].kind = "ArrayType") =>
        \A name \in ArrayVariables :
            call.node = ArrayTypeOf(name) =>
                /\ result = WrittenArray(name)
                /\ cache[call.node] = WrittenArray(name)

\* the type of `array[1..2] of R` has been inferred, its element is `unknown`
C25_Witness ==
    /\ InferTypeOver /\ call.node = ArrayTypeOf("ar")
    /\ result.type = "array" /\ result.elementType.type = "unknown"
    /\ result.leftBound = 1 /\ result.rightBound = 2

\* the parsed nodes
TreeIds == PreludeSize + 1..Len(nodes)

\* inferring `a` can lead to `b`: b is a part of a, or a is a reference that
\* resolves to the parsed node b
LeadsTo(a, b) ==
    \/ nodes[b].container = a
    \/ /\ nodes[a].kind = "MemberCall" /\ nodes[a].previous = None
       /\ nodes[a].hasElement /\ nodes[a].refText # "self"
       /\ ElementRef(nodes[a].refText) = b

RECURSIVE ReachedFrom(_, _)

\* the parsed nodes reached from those of `from` in up to `steps` steps
ReachedFrom(from, steps) ==
    IF steps = 0 THEN from
    ELSE ReachedFrom(from \cup {b \in TreeIds : \E a \in from : LeadsTo(a, b)},
                     steps - 1)

\* no reference resolves, directly or through other references, to a node
\* that contains it
NoReferenceCycle ==
    \A n \in TreeIds :
        n \notin ReachedFrom({b \in TreeIds : LeadsTo(n, b)}, Len(tree))

IsRecursiveDefinition(type) ==
    isErrorType(type) /\ type.message = "Recursive definition"

\* C28: on a tree without a reference cycle, a call of inferType started on
\* an empty memo never returns the error 'Recursive definition' and never
\* leaves it as the entry of a node whose inference is over; when the
\* top-level call has returned no entry is a provisional one.
C28_NoSpuriousRecursion ==
    (call.fn = "inferType" /\ call.memo = "new" /\ NoReferenceCycle) =>
        /\ ~IsRecursiveDefinition(ret)
        /\ ~IsRecursiveDefinition(result)
        /\ \A k \in DOMAIN cache : ~Active(k) => ~IsRecursiveDefinition(cache[k])

\* a reference to a field of the tree has been inferred through the field
C28_Witness ==
    /\ InferTypeOver /\ call.memo = "new" /\ NoReferenceCycle
    /\ call.node # None /\ call.node \in TreeIds
    /\ nodes[call.node].kind = "MemberCall"
    /\ \E field \in TreeIds \cap DOMAIN cache :
          /\ nodes[field].kind = "NamedViewField"
          /\ LeadsTo(call.node, field)
          /\ cache[field] = result /\ ~isErrorType(result)

\* the nodes of the declarations written as a TypeReference
TypeReferences ==
    {t \in 1..PreludeSize :
        Prelude[t].kind \in {"TypeReference", "IntType", "FloatType", "StringType",
                             "BooleanType", "DateType", "TimeType", "DateTimeType",
                             "ArrayType"}}

\* the TypeReference names a Record or a UserType
NamesType(t) == t # None /\ Prelude[t].kind = "TypeReference"

\* a call inferType(node) on a node of the declarations is over
DeclarationInferred(kind) ==
    /\ InferTypeOver /\ tree = <<>>
    /\ call.node # None /\ Prelude[call.node].kind = kind

\* C30: grammarTypeToTypeDescription gives for every TypeReference a
\* description without `record` and `user` at any depth, and `unknown` for a
\* reference to a Record or UserType; so a Variable and a record field
\* declared with a named type infer to `unknown`, and a UserType that aliases
\* a named type infers to the error 'Invalid base type for user type'.
C30_NamedTypesUnknown ==
    /\ DeclarationInferred("Variable") =>
          LET group == Prelude[call.node].container IN
          (group # None /\ Prelude[group].kind = "VarsOfType") =>
              /\ ~HasRecord(result) /\ ~UserInside(result)
              /\ NamesType(Prelude[group].declType) => result = [type |-> "unknown"]
    /\ DeclarationInferred("Record") =>
          /\ result.type = "record"
          /\ \A i \in 1..Len(Prelude[call.node].fieldsOfTypes) :
                LET group == Prelude[call.node].fieldsOfTypes[i] IN
                \A f \in 1..Len(group.fields) :
                    LET fieldType == result.fields[group.fields[f]] IN
                    /\ ~HasRecord(fieldType) /\ ~UserInside(fieldType)
                    /\ NamesType(group.declType) => fieldType = [type |-> "unknown"]
    /\ DeclarationInferred("UserType") =>
          (NamesType(Prelude[call.node].declType) =>
              /\ isErrorType(result)
              /\ result.message =
                    "Invalid base type for user type '" \o Prelude[call.node].name \o "'")
    /\ (InferTypeOver /\ tree = <<>>) =>
          \A t \in TypeReferences :
              /\ ~HasRecord(grammarTypeToTypeDescription(t))
              /\ ~UserInside(grammarTypeToTypeDescription(t))
              /\ NamesType(t) =>
                    grammarTypeToTypeDescription(t) = [type |-> "unknown"]

\* the UserType UR, which aliases the Record R, has been inferred to `error`
C30_Witness ==
    /\ DeclarationInferred("UserType")
    /\ Prelude[call.node].name = "UR"
    /\ NamesType(Prelude[call.node].declType)
    /\ result = createErrorType("Invalid base type for user type 'UR'", call.node)

====
